---- MODULE Spec2Model ----
(***************************************************************************)
(* The caching ray tracer of hamstr-game (src/src/tracer/renderer.rs):       *)
(* the Renderer (cache and dispatch), the Bakery (worker pool) and the      *)
(* worker threads, with the TileKey canonicalization they rest on.          *)
(*                                                                         *)
(* Heights are kept in height-map units (one unit = HM_SCALE = HM_MAX/255): *)
(* hm_min() and hm_max() multiply the stored byte by the positive constant  *)
(* HM_SCALE, which is strictly monotone on 0..255, so every comparison of   *)
(* two physical heights is the comparison of the two bytes.                 *)
(***************************************************************************)
EXTENDS Integers, Sequences, FiniteSets, TLC

\* Number of worker threads the Bakery starts (num_render_threads of the machine).
NumWorkers == 2

\* Depth of nested render_tile calls the call stack holds.
MaxDepth == 3

\* Largest height-map byte.
U8_MAX == 255

\* Width and height of a tile, in pixels (game/gamestate.rs).
GRID == 64

----------------------------------------------------------------------------
(* Option<T> *)

None == [some |-> FALSE]

Some(x) == [some |-> TRUE, v |-> x]

(* HashMap<K, V> as a function with a finite domain. *)

EmptyMap == [x \in {} |-> None]

contains_key(m, k) == k \in DOMAIN m

map_get(m, k) == IF k \in DOMAIN m THEN Some(m[k]) ELSE None

map_insert(m, k, v) == [x \in (DOMAIN m) \cup {k} |-> IF x = k THEN v ELSE m[x]]

map_remove(m, k) == [x \in (DOMAIN m) \ {k} |-> m[x]]

----------------------------------------------------------------------------
(* Image<C>: the dimensions (w, h) and the values in row-major order.  A     *)
(* height map holds bytes; of a diffuse map the model keeps the alpha        *)
(* channel.                                                                 *)

\* The pixel coordinates of a GRID x GRID image.
Pix == 0 .. (GRID - 1)

Image_new(dim) ==
    [dim |-> dim, values |-> [i \in 0 .. (dim[1] * dim[2] - 1) |-> 0]]

\* Image::from_fn(dim, f): the pixel (x, y) holds f(x, y); f is given as the
\* function [x, y |-> f(x, y)] over the pixels.
Image_from_fn(dim, f) ==
    [dim |-> dim,
     values |-> [i \in 0 .. (dim[1] * dim[2] - 1) |-> f[i % dim[1], i \div dim[1]]]]

\* self[y][x] is inside the image: the row y is a slice of the values, and x
\* is an index of the row (a negative i32 is a huge usize).
in_image(img, pix) ==
    /\ pix[1] >= 0 /\ pix[2] >= 0
    /\ (pix[2] + 1) * img.dim[1] <= img.dim[1] * img.dim[2]
    /\ pix[1] < img.dim[1]

\* self[y][x]
Image_at(img, pix) == img.values[pix[2] * img.dim[1] + pix[1]]

----------------------------------------------------------------------------
(* Surface: a height map and a diffuse map, with the cached minimum and      *)
(* maximum of the height map.                                               *)

RECURSIVE fold_max(_, _)
fold_max(p, pixels) ==
    IF pixels = <<>> THEN p
    ELSE fold_max(IF Head(pixels) > p THEN Head(pixels) ELSE p, Tail(pixels))

RECURSIVE fold_min(_, _)
fold_min(p, pixels) ==
    IF pixels = <<>> THEN p
    ELSE fold_min(IF Head(pixels) < p THEN Head(pixels) ELSE p, Tail(pixels))

\* pixels(): the values in row-major order; the row y (from 1) of them.
pixels_row(img, y) ==
    [i \in 1 .. img.dim[1] |-> img.values[(y - 1) * img.dim[1] + i - 1]]

\* hm_min is folded from 0.
Surface_new_min_from_zero(hm, dm) ==
    [hm |-> hm, dm |-> dm,
     hm_min |-> fold_min(0, [y \in 1 .. hm.dim[2] |->
                                fold_min(0, pixels_row(hm, y))]),
     hm_max |-> fold_max(0, [y \in 1 .. hm.dim[2] |->
                                fold_max(0, pixels_row(hm, y))])]

\* Surface::new: hm.pixels().iter().fold(..) for hm_min and hm_max; the rows
\* are folded one by one and the results folded again (max and min are
\* associative, commutative and idempotent, so this is the value of the fold).
Surface_new(hm, dm) ==
    [hm |-> hm, dm |-> dm,
     hm_min |-> fold_min(U8_MAX, [y \in 1 .. hm.dim[2] |->
                                     fold_min(U8_MAX, pixels_row(hm, y))]),
     hm_max |-> fold_max(0, [y \in 1 .. hm.dim[2] |->
                                fold_max(0, pixels_row(hm, y))])]

\* The palette of the model: block 0 is the empty surface, block 1 a flat low
\* surface, block 2 a step that starts at the height of block 1.
\* Both are opaque.
Palette ==
    << Surface_new(Image_new(<<GRID, GRID>>), Image_new(<<GRID, GRID>>)),
       Surface_new(Image_from_fn(<<GRID, GRID>>, [x \in Pix, y \in Pix |-> 40]),
                   Image_from_fn(<<GRID, GRID>>, [x \in Pix, y \in Pix |-> U8_MAX])),
       Surface_new(Image_from_fn(<<GRID, GRID>>,
                                 [x \in Pix, y \in Pix |-> IF x < GRID \div 2 THEN 40 ELSE 200]),
                   Image_from_fn(<<GRID, GRID>>, [x \in Pix, y \in Pix |-> U8_MAX])) >>

BlockIds == 0 .. (Len(Palette) - 1)

palette(block) == Palette[block + 1]

\* self.palette[block as usize] is within the bounds of the slice.
in_palette(block) == block < Len(Palette)

hm_max(surf) == surf.hm_max

hm_min(surf) == surf.hm_min

----------------------------------------------------------------------------
(* TileKey: blocks[row][column], rows and columns 0..2, and the goody. *)

TileKey(b00, b01, b02, b10, b11, b12, b20, b21, b22, goody) ==
    [blocks |-> << <<b00, b01, b02>>, <<b10, b11, b12>>, <<b20, b21, b22>> >>,
     goody |-> goody]

with_center(block) == TileKey(0, 0, 0, 0, block, 0, 0, 0, 0, 0)

TileKey_new == with_center(0)

\* k.blocks[r][c] of the code.
at(k, r, c) == k.blocks[r + 1][c + 1]

center(k) == at(k, 1, 1)

\* The goody is dropped (the center_only of lines 171-173).
center_only(k) == with_center(center(k))

\* The neighbors are kept, one of them moved to another cell.
center_and_goody_keeps_neighbor(k) ==
    TileKey(0, 0, 0, at(k, 0, 1), center(k), 0, 0, 0, 0, k.goody)

center_and_goody(k) ==
    TileKey(0, 0, 0, 0, center(k), 0, 0, 0, 0, k.goody)

is_center_only(k) ==
    LET masked == [k EXCEPT !.blocks[2][2] = 0]
    IN  masked.blocks = TileKey_new.blocks

Neighbors == {<<r, c>> \in (0 .. 2) \X (0 .. 2) : <<r, c>> # <<1, 1>>}

\* Every TileKey over the palette.
AllTileKeys ==
    {TileKey(b00, b01, b02, b10, b11, b12, b20, b21, b22, g) :
        b00 \in BlockIds, b01 \in BlockIds, b02 \in BlockIds,
        b10 \in BlockIds, b11 \in BlockIds, b12 \in BlockIds,
        b20 \in BlockIds, b21 \in BlockIds, b22 \in BlockIds,
        g \in BlockIds}

----------------------------------------------------------------------------
(* Renderer: canonicalization. *)

is_below_strict(surfa, surfb) ==
    hm_max(palette(surfa)) < hm_min(palette(surfb))

is_below(surfa, surfb) ==
    hm_max(palette(surfa)) <= hm_min(palette(surfb))

\* The two branches exchanged.
canonicalize1_inverted(block, c) ==
    IF is_below(block, c) THEN block ELSE 0

canonicalize1(block, c) ==
    IF is_below(block, c) THEN 0 ELSE block

\* The line for blocks[1][2] writes its result to blocks[1][1].
canonicalize_wrong_cell(k, c) ==
    [blocks |->
        << <<canonicalize1(at(k, 0, 0), c), canonicalize1(at(k, 0, 1), c),
             canonicalize1(at(k, 0, 2), c)>>,
           <<canonicalize1(at(k, 1, 0), c), canonicalize1(at(k, 1, 2), c),
             at(k, 1, 2)>>,
           <<canonicalize1(at(k, 2, 0), c), canonicalize1(at(k, 2, 1), c),
             canonicalize1(at(k, 2, 2), c)>> >>,
     goody |-> k.goody]

\* Each of the eight lines reads the cell it writes, and c is read before any
\* of them: the cells are independent.
canonicalize_cells(k, c) ==
    [blocks |->
        << <<canonicalize1(at(k, 0, 0), c), canonicalize1(at(k, 0, 1), c),
             canonicalize1(at(k, 0, 2), c)>>,
           <<canonicalize1(at(k, 1, 0), c), at(k, 1, 1),
             canonicalize1(at(k, 1, 2), c)>>,
           <<canonicalize1(at(k, 2, 0), c), canonicalize1(at(k, 2, 1), c),
             canonicalize1(at(k, 2, 2), c)>> >>,
     goody |-> k.goody]

canonicalize(k) == canonicalize_cells(k, center(k))

\* is_below indexes the palette with the neighbor and with the center, for
\* each of the 8 neighbors: an index out of bounds panics.
canonicalize_panics(k) ==
    \/ ~in_palette(center(k))
    \/ \E n \in Neighbors : ~in_palette(at(k, n[1], n[2]))

----------------------------------------------------------------------------
(* The state of the program. *)

VARIABLES
    cache,       \* Renderer.cache: canonical TileKey -> Rc<Texture>
    baking,      \* Renderer.baking: the in-flight set
    outbox,      \* Bakery.outbox: TileKey -> Image
    num_baking,  \* Bakery.num_baking
    to_work,     \* the work queue (to_work / from_bakery)
    from_work,   \* the completion queue (to_bakery / from_work)
    hand,        \* per worker thread: the TileKey it is baking, or None
    thread,      \* per worker thread: "none" (not spawned), "running", "exited"
                 \*                    (left its loop) or "panicked"
    dropped,     \* the Renderer, with its Bakery's to_work and from_work, is dropped
    next_uid,    \* texture.rs NEXT_UID
    nsent,       \* history: TileKey -> number of Bakery::send calls made for it
    last,        \* history: the last render_tile call: its argument, its result,
                 \*          the frames of the call and the keys it sent
    probe        \* the argument and results of the pure functions under test

vars ==
    <<cache, baking, outbox, num_baking, to_work, from_work, hand, thread,
      dropped, next_uid, nsent, last, probe>>

Workers == 1 .. NumWorkers

\* Image<BGRA> produced by render_central_block(chunk).
render_central_block(chunk) == [chunk |-> chunk]

\* shade_pix, for every pixel, indexes the palette with the center (diffuse_at,
\* line 437) and, if there is one, with the goody (line 451).  (The neighbors
\* are indexed where a ray passes; the keys the Renderer sends have passed
\* canonicalize.)
render_central_block_panics(chunk) ==
    \/ ~in_palette(center(chunk))
    \/ chunk.goody # 0 /\ ~in_palette(chunk.goody)

Image_default == [chunk |-> None]

Texture_new(img, uid) == [img |-> img, uid |-> uid]

Texture_default == [img |-> Image_default, uid |-> 0]

\* Renderer.empty
empty == Texture_default

\* The Renderer, its Bakery and NEXT_UID as one value, for the methods below.
\* receivers: the threads that hold a clone of the work queue's receiver;
\* stalled, panicked: the call waits on a channel, has panicked.
Self ==
    [cache |-> cache, baking |-> baking, outbox |-> outbox,
     num_baking |-> num_baking, to_work |-> to_work, from_work |-> from_work,
     next_uid |-> next_uid, nsent |-> nsent, stalled |-> FALSE,
     receivers |-> {w \in DOMAIN thread : thread[w] = "running"},
     panicked |-> FALSE]

----------------------------------------------------------------------------
(* Bakery *)

\* A rendezvous channel: send waits until the queue has room.
sync_channel_can_send(q) == Len(q) < 1

\* std::sync::mpsc::channel() is unbounded: send never waits.
channel_can_send(q) == TRUE

count(m, k) == IF k \in DOMAIN m THEN m[k] ELSE 0

\* to_work.send(tilekey).unwrap(): the send fails when every receiver is gone.
Bakery_send(self, tilekey) ==
    [self EXCEPT
        !.num_baking = @ + 1,
        !.stalled = @ \/ ~channel_can_send(self.to_work),
        !.panicked = @ \/ self.receivers = {},
        !.to_work = Append(@, tilekey),
        !.nsent = map_insert(@, tilekey, count(@, tilekey) + 1)]

\* The completions are moved to the outbox and the counter is left as it is.
RECURSIVE drain_uncounted(_)
drain_uncounted(self) ==
    IF self.from_work = <<>> THEN self
    ELSE LET item == Head(self.from_work)
         IN  drain_uncounted([self EXCEPT
                                 !.from_work = Tail(@),
                                 !.outbox = map_insert(@, item[1], item[2])])

\* The loop over from_work.try_iter(): every completion now in the queue.
RECURSIVE drain(_)
drain(self) ==
    IF self.from_work = <<>> THEN self
    ELSE LET item == Head(self.from_work)
         IN  drain([self EXCEPT
                        !.from_work = Tail(@),
                        !.num_baking = @ - 1,
                        !.outbox = map_insert(@, item[1], item[2])])

\* The image is returned and left in the outbox.
outbox_peek(self, tilekey) ==
    [self |-> self, img |-> map_get(self.outbox, tilekey)]

outbox_remove(self, tilekey) ==
    [self |-> [self EXCEPT !.outbox = map_remove(@, tilekey)],
     img |-> map_get(self.outbox, tilekey)]

\* The loop is left out: only the outbox is looked at.
Bakery_try_recv_no_drain(self, tilekey) == outbox_remove(self, tilekey)

Bakery_try_recv(self, tilekey) == outbox_remove(drain(self), tilekey)

----------------------------------------------------------------------------
(* Renderer *)

\* The check of the cache is left out.
cache_get_skipped(self, tilekey) == None

cache_get(self, tilekey) == map_get(self.cache, tilekey)

\* self.baking.insert is left out.
start_baking_unmarked(self, tilekey) == Bakery_send(self, tilekey)

start_baking(self, tilekey) ==
    Bakery_send([self EXCEPT !.baking = @ \cup {tilekey}], tilekey)

\* A key is taken to be baking only while no worker has picked it up.
is_baking_queued_only(self, tilekey) ==
    \E i \in 1 .. Len(self.to_work) : self.to_work[i] = tilekey

is_baking(self, tilekey) == tilekey \in self.baking

\* The texture is returned and not kept in the cache.
create_uncached(self, tilekey, img) ==
    [self |-> [self EXCEPT !.baking = @ \ {tilekey}, !.next_uid = @ + 1],
     tex |-> Texture_new(img, self.next_uid)]

\* self.baking.remove is left out.
create_keep_baking(self, tilekey, img) ==
    [self |-> [self EXCEPT
                  !.cache = map_insert(@, tilekey, Texture_new(img, self.next_uid)),
                  !.next_uid = @ + 1],
     tex |-> Texture_new(img, self.next_uid)]

\* The cache holds one entry: an insert drops what was there.
create_evicting(self, tilekey, img) ==
    [self |-> [self EXCEPT
                  !.baking = @ \ {tilekey},
                  !.cache = map_insert(EmptyMap, tilekey,
                                       Texture_new(img, self.next_uid)),
                  !.next_uid = @ + 1],
     tex |-> Texture_new(img, self.next_uid)]

\* The handle returned is a clone of the entry just inserted.
create(self, tilekey, img) ==
    [self |-> [self EXCEPT
                  !.baking = @ \ {tilekey},
                  !.cache = map_insert(@, tilekey, Texture_new(img, self.next_uid)),
                  !.next_uid = @ + 1],
     tex |-> map_insert(self.cache, tilekey,
                        Texture_new(img, self.next_uid))[tilekey]]

created(r, tilekey) ==
    IF r.img.some
    THEN [self |-> create(r.self, tilekey, r.img.v).self,
          tex |-> Some(create(r.self, tilekey, r.img.v).tex)]
    ELSE [self |-> r.self, tex |-> None]

Renderer_try_recv(self, tilekey) == created(Bakery_try_recv(self, tilekey), tilekey)

\* One frame of the trace of a render_tile call: the canonical key of the call
\* and how it ended.
Frame(tilekey, how) == [key |-> tilekey, how |-> how]

Return(self, tex, tilekey, how) ==
    [self |-> self, ret |-> tex, trace |-> <<Frame(tilekey, how)>>]

Nested(tilekey, r) == [r EXCEPT !.trace = <<Frame(tilekey, "nested")>> \o @]

RECURSIVE render_tile(_, _, _)

\* Lines 72-80: the low quality replacement.
render_tile_replacement(self, tilekey, depth) ==
    IF self.panicked THEN Return(self, empty, tilekey, "panic")
    ELSE IF is_center_only(tilekey) THEN Return(self, empty, tilekey, "empty")
    ELSE IF depth >= MaxDepth
    THEN Return([self EXCEPT !.stalled = TRUE], empty, tilekey, "overflow")
    ELSE Nested(tilekey, render_tile(self, center_and_goody(tilekey), depth + 1))

\* Lines 67-70: not yet started: start baking.
render_tile_start(self, tilekey, depth) ==
    render_tile_replacement(
        IF ~is_baking(self, tilekey) THEN start_baking(self, tilekey) ELSE self,
        tilekey, depth)

\* Lines 60-65, after the poll: return the texture if it was done.
render_tile_polled(polled, tilekey, depth) ==
    IF polled.tex.some
    THEN Return(polled.self, polled.tex.v, tilekey, "baked")
    ELSE render_tile_start(polled.self, tilekey, depth)

\* Lines 55-65: already baked, or currently baking.
render_tile_canonical(self, tilekey, hit, depth) ==
    IF hit.some THEN Return(self, hit.v, tilekey, "cached")
    ELSE render_tile_polled(
             IF tilekey \in self.baking
             THEN Renderer_try_recv(self, tilekey)
             ELSE [self |-> self, tex |-> None],
             tilekey, depth)

render_tile_lookup(self, tilekey, depth) ==
    render_tile_canonical(self, tilekey, cache_get(self, tilekey), depth)

\* The key is looked up as it was passed.
render_tile_uncanonical(self, tilekey, depth) ==
    render_tile_lookup(self, tilekey, depth)

render_tile(self, tilekey, depth) ==
    IF canonicalize_panics(tilekey)
    THEN Return([self EXCEPT !.panicked = TRUE], empty, tilekey, "panic")
    ELSE render_tile_lookup(self, canonicalize(tilekey), depth)

----------------------------------------------------------------------------
(* The keys the consumer asks for: centre block 2, one neighbor cell and the  *)
(* goody vary over the palette (map.rs tile_key, one grid position).         *)

Goodies == {0, 1}

VisibleKeys ==
    {TileKey(0, n, 0, 0, 2, 0, 0, 0, 0, g) : n \in BlockIds, g \in Goodies}

NoCall == [key |-> TileKey_new, ret |-> empty, trace |-> <<>>, sent |-> {}]

NoProbe == [phase |-> "off"]

\* Renderer::new: nothing cached, nothing baking, the workers idle.
Renderer_new ==
    /\ cache = EmptyMap
    /\ baking = {}
    /\ outbox = EmptyMap
    /\ num_baking = 0
    /\ to_work = <<>>
    /\ from_work = <<>>
    /\ hand = [w \in Workers |-> None]
    /\ dropped = FALSE
    /\ next_uid = 1
    /\ nsent = EmptyMap
    /\ last = NoCall

\* Bakery::new on a machine with NumWorkers + 1 cores: every worker is spawned.
Init ==
    /\ Renderer_new
    /\ thread = [w \in Workers |-> "running"]
    /\ probe = NoProbe

\* The call that ends as r returns: it neither waited on a channel, ran out of
\* stack nor panicked.
Returns(r) == ~r.self.stalled /\ ~r.self.panicked

\* The caller thread: one call of Renderer::render_tile, to its return.
RenderTile(tilekey) ==
    \E r \in {render_tile(Self, tilekey, 0)} :
        /\ ~dropped
        /\ Returns(r)
        /\ cache' = r.self.cache
        /\ baking' = r.self.baking
        /\ outbox' = r.self.outbox
        /\ num_baking' = r.self.num_baking
        /\ to_work' = r.self.to_work
        /\ from_work' = r.self.from_work
        /\ next_uid' = r.self.next_uid
        /\ nsent' = r.self.nsent
        /\ last' = [key |-> tilekey, ret |-> r.ret, trace |-> r.trace,
                     sent |-> {k \in DOMAIN r.self.nsent :
                                  r.self.nsent[k] # count(nsent, k)}]
        /\ UNCHANGED <<hand, thread, dropped, probe>>

\* The key is handed out and left in the queue.
WorkerNext_peek(w) ==
    /\ thread[w] = "running"
    /\ ~hand[w].some
    /\ to_work # <<>>
    /\ hand' = [hand EXCEPT ![w] = Some(Head(to_work))]
    /\ UNCHANGED <<cache, baking, outbox, num_baking, to_work, from_work,
                   thread, dropped, next_uid, nsent, last, probe>>

\* The receiver hands out the key sent last.
WorkerNext_lifo(w) ==
    /\ thread[w] = "running"
    /\ ~hand[w].some
    /\ to_work # <<>>
    /\ hand' = [hand EXCEPT ![w] = Some(to_work[Len(to_work)])]
    /\ to_work' = SubSeq(to_work, 1, Len(to_work) - 1)
    /\ UNCHANGED <<cache, baking, outbox, num_baking, from_work, thread,
                   dropped, next_uid, nsent, last, probe>>

\* A worker thread: MReceiver::next hands it the next key of the work queue
\* (recv returns the keys still queued also after the sender is dropped).
WorkerNext(w) ==
    /\ thread[w] = "running"
    /\ ~hand[w].some
    /\ to_work # <<>>
    /\ hand' = [hand EXCEPT ![w] = Some(Head(to_work))]
    /\ to_work' = Tail(to_work)
    /\ UNCHANGED <<cache, baking, outbox, num_baking, from_work, thread,
                   dropped, next_uid, nsent, last, probe>>

\* The worker bakes and sends nothing back.
WorkerBake_no_send(w) ==
    /\ thread[w] = "running"
    /\ hand[w].some
    /\ hand' = [hand EXCEPT ![w] = None]
    /\ UNCHANGED <<cache, baking, outbox, num_baking, to_work, from_work,
                   thread, dropped, next_uid, nsent, last, probe>>

\* The worker stores its result in the outbox itself.
WorkerBake_into_outbox(w) ==
    /\ thread[w] = "running"
    /\ hand[w].some
    /\ outbox' = map_insert(outbox, hand[w].v, render_central_block(hand[w].v))
    /\ num_baking' = num_baking - 1
    /\ hand' = [hand EXCEPT ![w] = None]
    /\ UNCHANGED <<cache, baking, to_work, from_work, thread, dropped,
                   next_uid, nsent, last, probe>>

\* A worker thread: bakes the key it holds and sends the result back.
WorkerBake(w) ==
    /\ thread[w] = "running"
    /\ hand[w].some
    /\ ~render_central_block_panics(hand[w].v)
    /\ ~dropped
    /\ from_work' =
           Append(from_work, <<hand[w].v, render_central_block(hand[w].v)>>)
    /\ hand' = [hand EXCEPT ![w] = None]
    /\ UNCHANGED <<cache, baking, outbox, num_baking, to_work, thread,
                   dropped, next_uid, nsent, last, probe>>

\* A worker thread: to_bakery.send fails, the completion receiver being
\* dropped: break.
WorkerSendFailed(w) ==
    /\ thread[w] = "running"
    /\ hand[w].some
    /\ ~render_central_block_panics(hand[w].v)
    /\ dropped
    /\ thread' = [thread EXCEPT ![w] = "exited"]
    /\ hand' = [hand EXCEPT ![w] = None]
    /\ UNCHANGED <<cache, baking, outbox, num_baking, to_work, from_work,
                   dropped, next_uid, nsent, last, probe>>

\* The error of recv is unwrapped: the closed queue panics the worker.
WorkerExit_unwrap(w) ==
    /\ thread[w] = "running"
    /\ ~hand[w].some
    /\ to_work = <<>>
    /\ dropped
    /\ thread' = [thread EXCEPT ![w] = "panicked"]
    /\ UNCHANGED <<cache, baking, outbox, num_baking, to_work, from_work, hand,
                   dropped, next_uid, nsent, last, probe>>

\* A worker thread: MReceiver::next returns None, the work queue being empty
\* and its sender dropped: the for loop ends.
WorkerExit(w) ==
    /\ thread[w] = "running"
    /\ ~hand[w].some
    /\ to_work = <<>>
    /\ dropped
    /\ thread' = [thread EXCEPT ![w] = "exited"]
    /\ UNCHANGED <<cache, baking, outbox, num_baking, to_work, from_work, hand,
                   dropped, next_uid, nsent, last, probe>>

\* A worker thread: render_central_block indexes the palette out of bounds;
\* the thread unwinds and drops its clone of the receiver.
WorkerPanic(w) ==
    /\ thread[w] = "running"
    /\ hand[w].some
    /\ render_central_block_panics(hand[w].v)
    /\ thread' = [thread EXCEPT ![w] = "panicked"]
    /\ hand' = [hand EXCEPT ![w] = None]
    /\ UNCHANGED <<cache, baking, outbox, num_baking, to_work, from_work,
                   dropped, next_uid, nsent, last, probe>>

\* The owner drops the Renderer: its Bakery's to_work sender and from_work
\* receiver go with it.
Drop ==
    /\ probe.phase # "cores"
    /\ ~dropped
    /\ dropped' = TRUE
    /\ UNCHANGED <<cache, baking, outbox, num_baking, to_work, from_work, hand,
                   thread, next_uid, nsent, last, probe>>

Caller == \E tilekey \in VisibleKeys : RenderTile(tilekey)

Worker == \E w \in Workers : WorkerNext(w) \/ WorkerBake(w)

Next == Caller \/ Worker

Spec == Init /\ [][Next]_vars

----------------------------------------------------------------------------
(* The claims about the Renderer and the Bakery, under Spec.                 *)

\* The bakes of key k that exist: waiting in the work queue, held by a worker,
\* or done and waiting in the completion queue.
Bakes(k) ==
    Cardinality({i \in 1 .. Len(to_work) : to_work[i] = k})
    + Cardinality({w \in Workers : hand[w] = Some(k)})
    + Cardinality({i \in 1 .. Len(from_work) : from_work[i][1] = k})

\* C1: single-flight: every canonical key is sent to the worker pool at most
\* once, so calls for a key that is in the in-flight set only poll, and at
\* most one bake of a key exists at any time.
C1_SingleFlight ==
    \A k \in (DOMAIN nsent) \cup baking : count(nsent, k) = 1 /\ Bakes(k) <= 1

\* C1 witness: the last call was for a key that is not canonical, its canonical
\* key is in the in-flight set, and the call sent nothing: it only polled.
C1_Witness ==
    /\ last.trace # <<>>
    /\ last.trace[1].key # last.key
    /\ last.trace[1].key \in baking
    /\ last.sent = {}
    /\ nsent[last.trace[1].key] = 1

\* C2: render_tile never blocks: in every reachable state a call of
\* render_tile, for every key, runs to its return without any worker step.
C2_NeverBlocks ==
    \A tilekey \in VisibleKeys : Returns(render_tile(Self, tilekey, 0))

\* C2 witness: two keys wait in the work queue, no worker has taken or
\* completed anything, and the call that queued them has returned.
C2_Witness ==
    /\ Len(to_work) >= 2
    /\ \A w \in Workers : ~hand[w].some
    /\ from_work = <<>>
    /\ Cardinality(last.sent) = 2

\* This step is a render_tile call for tilekey.
Called(tilekey) ==
    /\ last'.key = tilekey
    /\ hand' = hand
    /\ RenderTile(tilekey)

\* C4: once the bake of a canonical key is in the cache, every step leaves its
\* entry the same texture, and every render_tile call with a key that
\* canonicalizes to it returns that texture.
C4_CacheStability ==
    [][\A tilekey \in VisibleKeys :
          contains_key(cache, canonicalize(tilekey)) =>
              /\ contains_key(cache', canonicalize(tilekey))
              /\ cache'[canonicalize(tilekey)] = cache[canonicalize(tilekey)]
              /\ Called(tilekey) =>
                     last'.ret = cache[canonicalize(tilekey)]]_vars

\* C4 witness: with two keys cached, a call for a key that is not canonical was
\* served the cache entry of its canonical key.
C4_Witness ==
    /\ Cardinality(DOMAIN cache) >= 2
    /\ last.trace # <<>>
    /\ last.trace[1].how = "cached"
    /\ last.trace[1].key # last.key
    /\ last.ret = cache[last.trace[1].key]
    /\ last.ret.uid # 0

\* C5: the cache only grows: no step removes a cache entry or maps its key to
\* another texture.
C5_CacheOnlyGrows ==
    [][\A k \in DOMAIN cache : contains_key(cache', k) /\ cache'[k] = cache[k]]_vars

\* C5 witness: a bake was collected into a cache that held another entry.
C5_Witness ==
    /\ Cardinality(DOMAIN cache) >= 2
    /\ last.trace # <<>>
    /\ last.trace[Len(last.trace)].how = "baked"

NeighborsEmpty(k) == \A n \in Neighbors : at(k, n[1], n[2]) = 0

\* The last call found its canonical key neither cached nor completed.
LastNotReady ==
    /\ last.trace # <<>>
    /\ last.trace[1].how \in {"empty", "nested"}

\* C6 as claimed: when the canonical key is neither cached nor completed, the
\* empty placeholder is returned directly if and only if the key has all-empty
\* neighbors and no overlay.
C6_AsClaimed ==
    LastNotReady =>
        (last.trace[1].how = "empty"
            <=> (NeighborsEmpty(last.trace[1].key) /\ last.trace[1].key.goody = 0))

\* C6 amended: when the canonical key is neither cached nor completed, the
\* empty placeholder is returned directly if and only if the key has all-empty
\* neighbors, with or without an overlay; otherwise the call returns what one
\* nested call for the key of the center block and the overlay returns: its
\* cache entry, or the empty placeholder.
C6_DegradeRule ==
    LastNotReady =>
        /\ last.trace[1].how = "empty" <=> NeighborsEmpty(last.trace[1].key)
        /\ last.trace[1].how = "empty" => last.ret = empty
        /\ last.trace[1].how = "nested" =>
              /\ Len(last.trace) = 2
              /\ NeighborsEmpty(last.trace[2].key)
              /\ center(last.trace[2].key) = center(last.trace[1].key)
              /\ last.trace[2].key.goody = last.trace[1].key.goody
              /\ last.ret = IF contains_key(cache, last.trace[2].key)
                            THEN cache[last.trace[2].key]
                            ELSE empty

\* C6 witness: a key with a neighbor and an overlay was not ready, and the
\* nested call for its center block and overlay returned the empty placeholder.
C6_Witness ==
    /\ LastNotReady
    /\ last.trace[1].how = "nested"
    /\ last.trace[1].key.goody # 0
    /\ last.trace[2].how = "empty"
    /\ last.ret = empty

\* The bake of k has not completed: no result for k is in the completion
\* queue or in the outbox.
NotCompleted(k) ==
    /\ \A i \in 1 .. Len(from_work) : from_work[i][1] # k
    /\ ~contains_key(outbox, k)

\* C9: no retry, no timeout: while the bake of a submitted key has not
\* completed, every step leaves the key in the in-flight set and sends it to
\* no worker again, and every render_tile call for it returns the degraded
\* texture or the empty placeholder.
C9_NoRetry ==
    [][\A k \in baking :
          NotCompleted(k) =>
              /\ k \in baking'
              /\ count(nsent', k) = count(nsent, k)
              /\ \A tilekey \in VisibleKeys :
                    (canonicalize(tilekey) = k /\ Called(tilekey)) =>
                        \/ last'.ret = empty
                        \/ /\ contains_key(cache', center_and_goody(k))
                           /\ center_and_goody(k) # k
                           /\ last'.ret = cache'[center_and_goody(k)]]_vars

\* C9 witness: a worker holds the bake of a key, and the last call, for that
\* key, sent nothing and returned the degraded texture.
C9_Witness ==
    /\ last.trace # <<>>
    /\ last.trace[1].key \in baking
    /\ \E w \in Workers : hand[w] = Some(last.trace[1].key)
    /\ last.sent = {}
    /\ last.trace[1].how = "nested"
    /\ last.ret.uid # 0

\* C10: a key enters the in-flight set in the step that sends it to the
\* Bakery, and only then; it leaves the set in the step that inserts its
\* completed image into the cache, and only then.
C10_InFlightLifecycle ==
    [][\A k \in baking \cup baking' \cup (DOMAIN nsent') \cup (DOMAIN cache') :
          /\ (k \notin baking /\ k \in baking')
                 <=> count(nsent', k) = count(nsent, k) + 1
          /\ (k \in baking /\ k \notin baking')
                 <=> (~contains_key(cache, k) /\ contains_key(cache', k))
          /\ (k \in baking /\ k \notin baking')
                 => cache'[k].img = render_central_block(k)]_vars

\* C10 witness: one key has left the in-flight set for the cache, sent once,
\* while another is still in flight.
C10_Witness ==
    /\ \E k \in DOMAIN cache : k \notin baking /\ nsent[k] = 1
    /\ baking # {}
    /\ last.trace # <<>>
    /\ last.trace[Len(last.trace)].how = "baked"

\* C16: a worker step (a worker takes a key or hands back a bake) leaves the
\* cache, the in-flight set, the outbox and the baking counter unchanged; a
\* step that changes one of them is a render_tile call of the caller thread.
C16_WorkersFrame ==
    [][/\ hand' # hand =>
             UNCHANGED <<cache, baking, outbox, num_baking>>
       /\ <<cache, baking, outbox, num_baking>>'
              # <<cache, baking, outbox, num_baking>> =>
             \E tilekey \in VisibleKeys : Called(tilekey)]_vars

\* C16 witness: workers have taken one key and handed back the bake of
\* another, with an entry in the cache, in the in-flight set and in the outbox.
C16_Witness ==
    /\ \E w \in Workers : hand[w].some
    /\ from_work # <<>>
    /\ cache # EmptyMap
    /\ outbox # EmptyMap
    /\ Cardinality(baking) = num_baking + Cardinality(DOMAIN outbox)

\* The number of Bakery::send calls made.
RECURSIVE SentTotal(_)
SentTotal(m) ==
    IF DOMAIN m = {} THEN 0
    ELSE m[CHOOSE k \in DOMAIN m : TRUE]
             + SentTotal(map_remove(m, CHOOSE k \in DOMAIN m : TRUE))

\* The jobs waiting in the work queue, held by a worker or sitting in the
\* completion queue.
JobsTotal ==
    Len(to_work) + Cardinality({w \in Workers : hand[w].some}) + Len(from_work)

C34_CacheBakingDisjoint == (DOMAIN cache) \cap baking = {}

\* C34 witness: two keys are cached and another is in flight, the last call
\* having moved its key from the in-flight set to the cache.
C34_Witness ==
    /\ Cardinality(DOMAIN cache) = 2
    /\ baking # {}
    /\ last.trace # <<>>
    /\ last.trace[1].how = "baked"

\* The places where the job or the result of key k is.
Places(k) == Bakes(k) + (IF contains_key(outbox, k) THEN 1 ELSE 0)

C36_KeysCanonical ==
    /\ \A k \in (DOMAIN cache) \cup baking \cup (DOMAIN nsent) \cup (DOMAIN outbox) :
          canonicalize(k) = k
    /\ \A i \in 1 .. Len(to_work) : canonicalize(to_work[i]) = to_work[i]
    /\ \A i \in 1 .. Len(from_work) : canonicalize(from_work[i][1]) = from_work[i][1]
    /\ \A w \in Workers : hand[w].some => canonicalize(hand[w].v) = hand[w].v

\* C36 witness: the last call sent both its key and, in the degrade step, the
\* key of the center block and the overlay, with other keys in the cache and in
\* the outbox.
C36_Witness ==
    /\ Cardinality(last.sent) = 2
    /\ center_and_goody(canonicalize(last.key)) \in last.sent
    /\ last.key.goody # 0
    /\ cache # EmptyMap
    /\ outbox # EmptyMap

\* C37: result provenance: what the last render_tile(k) call returned is the
\* cache entry of canonicalize(k), the cache entry of the center-and-overlay
\* key of canonicalize(k), or the empty placeholder; a texture other than the
\* placeholder is the bake of a key with the center block and the overlay of k.
C37_Provenance ==
    last.trace # <<>> =>
        /\ \/ /\ contains_key(cache, canonicalize(last.key))
              /\ last.ret = cache[canonicalize(last.key)]
           \/ /\ contains_key(cache, center_and_goody(canonicalize(last.key)))
              /\ last.ret = cache[center_and_goody(canonicalize(last.key))]
           \/ last.ret = empty
        /\ last.ret # empty =>
              /\ last.ret.img.chunk \in
                     {canonicalize(last.key),
                      center_and_goody(canonicalize(last.key))}
              /\ center(last.ret.img.chunk) = center(last.key)
              /\ last.ret.img.chunk.goody = last.key.goody

\* C37 witness: a call for a key with a neighbor and an overlay returned the
\* bake of its center-and-overlay key while textures of the other overlay are
\* in the cache.
C37_Witness ==
    /\ last.trace # <<>>
    /\ last.trace[1].how = "nested"
    /\ last.ret # empty
    /\ last.key.goody # 0
    /\ \E k \in DOMAIN cache : k.goody # last.key.goody

\* The uids a texture of the model can have: one per canonical key.
TextureUids == 1 .. Cardinality({canonicalize(k) : k \in VisibleKeys})

\* The last call, for tilekey, returned tex, the fully baked texture of its
\* canonical key.
ReturnedBaked(tilekey, tex) ==
    /\ last.key = tilekey
    /\ last.trace # <<>>
    /\ last.trace[1].how \in {"cached", "baked"}
    /\ last.ret = tex

\* The last call, for tilekey, returned the texture of the nested call for the
\* center block and the overlay.
ReturnedFallback(tilekey) ==
    /\ last.key = tilekey
    /\ last.trace # <<>>
    /\ last.trace[1].how = "nested"
    /\ last.ret # empty

\* C38: quality never regresses for a key k: once a render_tile(k) call has
\* returned the fully baked texture of canonicalize(k), every later call for k
\* returns that same texture; once a call has returned the center-and-overlay
\* fallback texture, no later call for k returns the empty placeholder.
C38_NoRegression ==
    \A tilekey \in VisibleKeys :
        /\ \A uid \in TextureUids :
              [](ReturnedBaked(tilekey,
                               Texture_new(render_central_block(canonicalize(tilekey)),
                                           uid))
                    => [](last.key = tilekey =>
                             ReturnedBaked(tilekey,
                                 Texture_new(render_central_block(canonicalize(tilekey)),
                                             uid))))
        /\ [](ReturnedFallback(tilekey)
                 => [](last.key = tilekey => last.ret # empty))

\* C38 witness: a call for a key with a neighbor was served its fully baked
\* texture from the cache while the texture of its center block, the fallback
\* of earlier calls, is cached too.
C38_Witness ==
    /\ last.trace # <<>>
    /\ last.trace[1].how = "cached"
    /\ ~NeighborsEmpty(canonicalize(last.key))
    /\ contains_key(cache, center_and_goody(canonicalize(last.key)))
    /\ cache[center_and_goody(canonicalize(last.key))].uid < last.ret.uid

\* The worker threads are scheduled fairly: an idle worker takes a waiting key,
\* a worker that holds a key finishes its bake.
FairSpec ==
    /\ Spec
    /\ \A w \in Workers : WF_vars(WorkerNext(w)) /\ WF_vars(WorkerBake(w))

\* The last call, for tilekey, returned the fully baked texture of its
\* canonical key, which is in the cache and no longer in flight.
FullyBaked(tilekey) ==
    /\ last.key = tilekey
    /\ contains_key(cache, canonicalize(tilekey))
    /\ canonicalize(tilekey) \notin baking
    /\ last.ret = cache[canonicalize(tilekey)]
    /\ last.ret.img = render_central_block(canonicalize(tilekey))

\* C3: eventual completion: under fair scheduling of the workers, if the
\* caller keeps calling render_tile with a key then eventually a call returns
\* the fully baked texture of its canonical key.
C3_EventualCompletion ==
    \A tilekey \in VisibleKeys :
        []<><<Called(tilekey)>>_vars => <>FullyBaked(tilekey)

\* C3 witness: a call for a key with a neighbor and an overlay returned the
\* fully baked texture, collected by that call.
C3_Witness ==
    /\ FullyBaked(last.key)
    /\ ~NeighborsEmpty(canonicalize(last.key))
    /\ last.key.goody # 0
    /\ last.trace = <<Frame(canonicalize(last.key), "baked")>>

----------------------------------------------------------------------------
(* The Bakery on its own, as test_try_recv uses it: it is constructed on a   *)
(* machine with some number of cores, the caller sends keys and polls for    *)
(* their images, and in the end drops it.                                    *)

\* Number of Bakery::send calls the caller makes.
MaxSends == 2

\* num_cpus::get() of the machines considered: the pool fits in Workers.
MaxCores == NumWorkers + 1

Cores == 1 .. MaxCores

max(a, b) == IF a > b THEN a ELSE b

\* The 1-core machine is left without a worker.
num_render_threads_no_floor(cores) == cores - 1

num_render_threads(cores) == max(cores - 1, 1)

\* usize: num_cpus::get() - 1 underflows.
num_render_threads_underflows(cores) == cores - 1 < 0

BakeryKeys == {with_center(1), with_center(2)}

InitBakery ==
    /\ Renderer_new
    /\ thread = [w \in Workers |-> "none"]
    /\ probe \in {[phase |-> "cores", cores |-> c] : c \in Cores}

\* Bakery::new: spawns the worker threads.
BakeryNew ==
    /\ probe.phase = "cores"
    /\ ~num_render_threads_underflows(probe.cores)
    /\ thread' = [w \in Workers |->
                     IF w <= num_render_threads(probe.cores)
                     THEN "running" ELSE "none"]
    /\ probe' = [phase |-> "bakery", cores |-> probe.cores, op |-> "new",
                 key |-> TileKey_new, ret |-> None, after_send |-> FALSE,
                 sent |-> <<>>, recvd |-> EmptyMap]
    /\ UNCHANGED <<cache, baking, outbox, num_baking, to_work, from_work, hand,
                   dropped, next_uid, nsent, last>>

\* The caller: b.send(tilekey).  probe.sent is the history of the keys sent.
BakerySend(tilekey) ==
    \E r \in {Bakery_send(Self, tilekey)} :
        /\ probe.phase = "bakery"
        /\ ~dropped
        /\ Len(probe.sent) < MaxSends
        /\ ~r.stalled /\ ~r.panicked
        /\ num_baking' = r.num_baking
        /\ to_work' = r.to_work
        /\ nsent' = r.nsent
        /\ probe' = [probe EXCEPT !.op = "send", !.key = tilekey, !.ret = None,
                                  !.after_send = FALSE,
                                  !.sent = Append(@, tilekey)]
        /\ UNCHANGED <<cache, baking, outbox, from_work, hand, thread, dropped,
                       next_uid, last>>

\* The caller: b.try_recv(tilekey).  probe.ret is what the call returned,
\* probe.after_send whether the caller's previous call was send(tilekey), and
\* probe.recvd counts the images returned for each key.
BakeryTryRecv(tilekey) ==
    \E r \in {Bakery_try_recv(Self, tilekey)} :
        /\ probe.phase = "bakery"
        /\ ~dropped
        /\ outbox' = r.self.outbox
        /\ num_baking' = r.self.num_baking
        /\ from_work' = r.self.from_work
        /\ probe' = [probe EXCEPT
                         !.op = "try_recv", !.key = tilekey, !.ret = r.img,
                         !.after_send = (probe.op = "send" /\ probe.key = tilekey),
                         !.recvd = IF r.img.some
                                   THEN map_insert(@, tilekey, count(@, tilekey) + 1)
                                   ELSE @]
        /\ UNCHANGED <<cache, baking, to_work, hand, thread, dropped, next_uid,
                       nsent, last>>

BakeryCaller ==
    \E tilekey \in BakeryKeys : BakerySend(tilekey) \/ BakeryTryRecv(tilekey)

BakeryWorker ==
    \E w \in Workers :
        WorkerNext(w) \/ WorkerBake(w) \/ WorkerSendFailed(w) \/ WorkerExit(w)

NextBakery == BakeryNew \/ BakeryCaller \/ BakeryWorker \/ Drop

SpecBakery == InitBakery /\ [][NextBakery]_vars

\* The worker threads are scheduled fairly.
FairSpecBakery ==
    /\ SpecBakery
    /\ \A w \in Workers :
          /\ WF_vars(WorkerNext(w))
          /\ WF_vars(WorkerBake(w))
          /\ WF_vars(WorkerSendFailed(w))
          /\ WF_vars(WorkerExit(w))

\* This step is a try_recv(tilekey) call of the caller.
TryRecvCalled(tilekey) ==
    /\ probe'.phase = "bakery"
    /\ probe'.op = "try_recv"
    /\ probe'.key = tilekey
    /\ BakeryTryRecv(tilekey)

\* A result for k waits in the completion queue.
Completed(k) == \E i \in 1 .. Len(from_work) : from_work[i][1] = k

\* The results for k the Bakery and its workers hold, with the bakes of k
\* still to be done.
Held(k) == Bakes(k) + (IF contains_key(outbox, k) THEN 1 ELSE 0)

\* C11: try_recv(key) moves every completion of the completion queue into the
\* outbox, then returns the image stored for key and removes it, or None: the
\* image returned is the one baked for key, the results of the other keys are
\* in the outbox afterwards and stay there in every step that is not a
\* try_recv for them, and the images returned for a key are never more than
\* its completed bakes (a result is returned by at most one call).
C11_TryRecvContract ==
    [][/\ \A tilekey \in BakeryKeys :
             TryRecvCalled(tilekey) =>
                 /\ from_work' = <<>>
                 /\ ~contains_key(outbox', tilekey)
                 /\ probe'.ret =
                        IF contains_key(outbox, tilekey) \/ Completed(tilekey)
                        THEN Some(render_central_block(tilekey))
                        ELSE None
                 /\ \A k \in BakeryKeys \ {tilekey} :
                        contains_key(outbox', k)
                            <=> (contains_key(outbox, k) \/ Completed(k))
       /\ \A k \in DOMAIN outbox :
             \/ TryRecvCalled(k)
             \/ contains_key(outbox', k) /\ outbox'[k] = outbox[k]
       /\ \A k \in DOMAIN outbox' : outbox'[k] = render_central_block(k)
       /\ \A k \in DOMAIN nsent' :
             count(probe'.recvd, k) + Held(k)' <= count(nsent', k)]_vars

\* C11 witness: a try_recv returned the image of its key, from a completion
\* queue that held two results, and the result of the other key is in the
\* outbox.
C11_Witness ==
    /\ probe.phase = "bakery"
    /\ probe.op = "try_recv"
    /\ probe.ret = Some(render_central_block(probe.key))
    /\ \E k \in DOMAIN outbox : k # probe.key
    /\ from_work = <<>>
    /\ count(probe.recvd, probe.key) = 1

\* C12 as claimed: a try_recv(key) that is the caller's next call after its
\* send(key), the only send of key, returns None.  (Nothing orders the steps
\* of the worker threads after the caller's call.)
C12_AsClaimed ==
    (/\ probe.phase = "bakery"
     /\ probe.op = "try_recv"
     /\ probe.after_send
     /\ count(nsent, probe.key) = 1) => probe.ret = None

\* The caller's last call was send(k).
Sent(k) ==
    /\ probe.phase = "bakery"
    /\ probe.op = "send"
    /\ probe.key = k

\* The caller's last call was a try_recv(k) that returned the image of k.
Received(k) ==
    /\ probe.phase = "bakery"
    /\ probe.op = "try_recv"
    /\ probe.key = k
    /\ probe.ret = Some(render_central_block(k))

\* C13: under fair scheduling of the workers, if the caller keeps the Bakery
\* and keeps polling try_recv(key), then after every send(key) a try_recv(key)
\* eventually returns Some(image of key).
C13_EventualResult ==
    \A k \in BakeryKeys :
        ([]~dropped /\ WF_vars(BakeryTryRecv(k))) => (Sent(k) ~> Received(k))

\* C13 witness: the only send of a key was answered by a try_recv that first
\* had returned None, the bake of another key still waiting.
C13_Witness ==
    /\ Received(probe.key)
    /\ ~probe.after_send
    /\ nsent[probe.key] = 1
    /\ probe.recvd[probe.key] = 1
    /\ to_work # <<>>

\* No worker thread is in its loop.
AllWorkersExited == \A w \in Workers : thread[w] \in {"none", "exited"}

\* C14: shutdown: once the Renderer is dropped, under fair scheduling every
\* worker thread eventually has left its loop, and none panics; a worker
\* leaves its loop only after the drop, idle with the work queue empty, or
\* holding a bake whose result it cannot send.
C14_Shutdown ==
    /\ dropped ~> AllWorkersExited
    /\ [](\A w \in Workers : thread[w] # "panicked")
    /\ [][\A w \in Workers :
              (thread[w] = "running" /\ thread'[w] # "running") =>
                  /\ thread'[w] = "exited"
                  /\ dropped
                  /\ hand'[w] = None
                  /\ hand[w].some \/ to_work = <<>>]_vars

\* C14 witness: after the drop two workers have left their loops; the two
\* keys sent were taken and no result of theirs ever reached the caller, the
\* completion queue or the outbox: both workers left on a failed send.
C14_Witness ==
    /\ dropped
    /\ AllWorkersExited
    /\ Cardinality({w \in Workers : thread[w] = "exited"}) >= 2
    /\ Len(probe.sent) = 2
    /\ to_work = <<>>
    /\ from_work = <<>>
    /\ outbox = EmptyMap
    /\ probe.recvd = EmptyMap

\* The last n elements of the sequence q.
Suffix(q, n) == SubSeq(q, Len(q) - n + 1, Len(q))

\* The keys on their way with a single worker, oldest first: the results in
\* the completion queue, the key worker 1 holds, the keys in the work queue.
Pipeline ==
    [i \in 1 .. Len(from_work) |-> from_work[i][1]]
        \o (IF hand[1].some THEN <<hand[1].v>> ELSE <<>>)
        \o to_work

\* C17: work is started in arrival order: the keys waiting in the work queue
\* are always the keys sent last, in the order sent, so a key sent before
\* another is taken before it; with a single worker, while the Bakery and its
\* completion queue exist, the results in the completion queue, the key being
\* baked and the waiting keys together are the keys sent last, in the order
\* sent: completions arrive in submission order.
C17_ArrivalOrder ==
    probe.phase = "bakery" =>
        /\ Len(to_work) <= Len(probe.sent)
        /\ to_work = Suffix(probe.sent, Len(to_work))
        /\ (Cardinality({w \in Workers : thread[w] # "none"}) = 1 /\ ~dropped) =>
               /\ Len(Pipeline) <= Len(probe.sent)
               /\ Pipeline = Suffix(probe.sent, Len(Pipeline))

\* C17 witness: with a single worker, the results of two different keys are
\* in the completion queue, in the order the keys were sent.
C17_Witness ==
    /\ probe.phase = "bakery"
    /\ Cardinality({w \in Workers : thread[w] # "none"}) = 1
    /\ ~dropped
    /\ Len(from_work) = 2
    /\ from_work[1][1] # from_work[2][1]
    /\ from_work[1][1] = probe.sent[1]
    /\ from_work[2][1] = probe.sent[2]

\* The worker threads Bakery::new has started.
Spawned == {w \in Workers : thread[w] # "none"}

\* C18: for every number of cores c >= 1, Bakery::new starts exactly
\* max(c - 1, 1) worker threads: c - 1 of them if that is at least one, one
\* otherwise; the pool is never empty and c - 1 does not underflow.
C18_PoolSize ==
    /\ probe.phase = "cores" => ~num_render_threads_underflows(probe.cores)
    /\ probe.phase = "bakery" =>
           /\ Cardinality(Spawned) >= 1
           /\ probe.cores >= 2 => Cardinality(Spawned) = probe.cores - 1
           /\ probe.cores = 1 => Cardinality(Spawned) = 1

\* C18 witness: on a machine with one core the Bakery has started one worker,
\* which has taken a key.
C18_Witness ==
    /\ probe.phase = "bakery"
    /\ probe.cores = 1
    /\ Spawned = {1}
    /\ hand[1].some

----------------------------------------------------------------------------
(* The Renderer asked for keys that reference block ids outside the palette. *)

\* The first block id outside the palette.
OutOfPalette == Len(Palette)

\* Requests with an out-of-palette id in a neighbor cell, in the center cell
\* and in the overlay, and requests within the palette.
InvalidKeys ==
    {TileKey(0, OutOfPalette, 0, 0, 2, 0, 0, 0, 0, 0),
     with_center(OutOfPalette),
     TileKey(0, 0, 0, 0, 2, 0, 0, 0, 0, OutOfPalette),
     TileKey(0, 2, 0, 0, 2, 0, 0, 0, 0, OutOfPalette)}

RequestedKeys ==
    InvalidKeys \cup {with_center(2), TileKey(0, 2, 0, 0, 2, 0, 0, 0, 0, 0)}

\* The caller thread: a call of Renderer::render_tile that panics.  The thread
\* unwinds: the call returns nothing (last.ret has no meaning), and the
\* Renderer is dropped.
RenderTilePanic(tilekey) ==
    \E r \in {render_tile(Self, tilekey, 0)} :
        /\ ~dropped
        /\ r.self.panicked
        /\ cache' = r.self.cache
        /\ baking' = r.self.baking
        /\ outbox' = r.self.outbox
        /\ num_baking' = r.self.num_baking
        /\ to_work' = r.self.to_work
        /\ from_work' = r.self.from_work
        /\ next_uid' = r.self.next_uid
        /\ nsent' = r.self.nsent
        /\ last' = [key |-> tilekey, ret |-> r.ret, trace |-> r.trace,
                     sent |-> {k \in DOMAIN r.self.nsent :
                                  r.self.nsent[k] # count(nsent, k)}]
        /\ dropped' = TRUE
        /\ UNCHANGED <<hand, thread, probe>>

CallerInvalid ==
    \E tilekey \in RequestedKeys : RenderTile(tilekey) \/ RenderTilePanic(tilekey)

WorkerInvalid ==
    \E w \in Workers :
        \/ WorkerNext(w)
        \/ WorkerBake(w)
        \/ WorkerPanic(w)
        \/ WorkerSendFailed(w)
        \/ WorkerExit(w)

NextInvalid == CallerInvalid \/ WorkerInvalid

SpecInvalid == Init /\ [][NextInvalid]_vars

\* A block id of k, in a cell or in the overlay, is outside the palette.
OutOfRange(k) ==
    \/ \E r \in 0 .. 2, c \in 0 .. 2 : at(k, r, c) \notin BlockIds
    \/ k.goody \notin BlockIds

\* C15 as claimed: a render_tile call with a key that references a block id
\* outside the palette, in a neighbor cell, in the center cell or in the
\* overlay, panics in the calling thread and returns no texture.
C15_AsClaimed ==
    (last.trace # <<>> /\ OutOfRange(last.key)) =>
        /\ last.trace[Len(last.trace)].how = "panic"
        /\ dropped

----------------------------------------------------------------------------
(* halton.rs.  An f64 is kept as the exact fraction num/den.  With base 2     *)
(* every f is a power of two and every r a multiple of f below 1, so each     *)
(* operation of the loop is exact in f64 as long as r has at most 53 bits.    *)

\* Largest index i the Halton series is evaluated at.
MaxHaltonIndex == 127

\* Number of binary digits that hold MaxHaltonIndex + 2.
HaltonBits == 8

\* The while loop: f = f / bf; r = r + f * (i % b); i = floor(i / bf).
\* f is 1/f_den and r is r_num/f_den.
RECURSIVE halton_loop(_, _, _, _)
halton_loop(b, i, f_den, r_num) ==
    IF i > 0
    THEN halton_loop(b, i \div b, f_den * b, r_num * b + (i % b))
    ELSE [num |-> r_num, den |-> f_den]

\* The series is not shifted: it starts from 0.
halton_from_zero(b, i) == halton_loop(b, i, 1, 0)

halton(b, i) == halton_loop(b, i + 1, 1, 0)

InitHalton ==
    /\ Renderer_new
    /\ thread = [w \in Workers |-> "running"]
    /\ probe \in {[phase |-> "halton", b |-> 2, i |-> i] : i \in 0 .. MaxHaltonIndex}

Halton ==
    /\ probe.phase = "halton"
    /\ probe' = [phase |-> "halton_done", b |-> probe.b, i |-> probe.i,
                 r |-> halton(probe.b, probe.i)]
    /\ UNCHANGED <<cache, baking, outbox, num_baking, to_work, from_work, hand,
                   thread, dropped, next_uid, nsent, last>>

NextHalton == Halton

SpecHalton == InitHalton /\ [][NextHalton]_vars

\* The values test_halton and the specification list, as fractions.
HaltonFirst10 ==
    << <<1, 2>>, <<1, 4>>, <<3, 4>>, <<1, 8>>, <<5, 8>>, <<3, 8>>, <<7, 8>>,
       <<1, 16>>, <<9, 16>>, <<5, 16>> >>

\* Binary digit k of n.
Bit(n, k) == (n \div (2 ^ k)) % 2

\* The base-2 radical inverse of n, times 2^HaltonBits: digit k of n has the
\* weight 2^-(k+1).
RECURSIVE RadicalInverse(_, _)
RadicalInverse(n, k) ==
    IF k = HaltonBits THEN 0
    ELSE Bit(n, k) * (2 ^ (HaltonBits - 1 - k)) + RadicalInverse(n, k + 1)

\* C19: halton(2, i) is the base-2 radical inverse of i + 1; for i = 0..9 it
\* is 0.5, 0.25, 0.75, 0.125, 0.625, 0.375, 0.875, 0.0625, 0.5625, 0.3125; and
\* every value lies strictly between 0 and 1.
C19_Halton ==
    probe.phase = "halton_done" =>
        /\ probe.r.num * (2 ^ HaltonBits)
               = RadicalInverse(probe.i + 1, 0) * probe.r.den
        /\ probe.i <= 9 =>
               probe.r.num * HaltonFirst10[probe.i + 1][2]
                   = HaltonFirst10[probe.i + 1][1] * probe.r.den
        /\ 0 < probe.r.num
        /\ probe.r.num < probe.r.den

\* C19 witness: halton(2, 8) has been computed, and is 9/16.
C19_Witness ==
    /\ probe.phase = "halton_done"
    /\ probe.b = 2
    /\ probe.i = 8
    /\ probe.r = [num |-> 9, den |-> 16]

----------------------------------------------------------------------------
(* pos_to_tile.  A non-negative f64 is kept as m * 2^e with m a natural       *)
(* number: positions on a grid of 2^-PosBits, and powers of two around the    *)
(* range of usize.  floor, the subtraction of the floor and the cast are      *)
(* exact on these values.                                                     *)

\* Positions are multiples of 2^-PosBits.
PosBits == 3

\* Positions reach up to MaxTile tiles.
MaxTile == 5

\* Width of usize on the 64-bit targets.
USIZE_BITS == 64

F64(m, e) == [m |-> m, e |-> e]

F64Samples ==
    {F64(n, 0 - PosBits) : n \in 0 .. (MaxTile * (2 ^ PosBits))}
        \cup {F64(1, USIZE_BITS - 1), F64(1, USIZE_BITS)}

\* f64::floor
floor(x) == IF x.e >= 0 THEN x ELSE F64(x.m \div (2 ^ (0 - x.e)), 0)

\* x - y for x >= y, on the common exponent.
f64_sub(x, y) ==
    IF x.e <= y.e
    THEN F64(x.m - y.m * (2 ^ (y.e - x.e)), x.e)
    ELSE F64(x.m * (2 ^ (x.e - y.e)) - y.m, y.e)

\* common/math.rs
modf(x) == <<floor(x), f64_sub(x, floor(x))>>

\* The integer x (a floor) is 2^USIZE_BITS or more.  (m is below 2^31.)
exceeds_usize(x) ==
    IF x.e >= USIZE_BITS THEN x.m >= 1
    ELSE IF x.e <= USIZE_BITS - 31 THEN FALSE
    ELSE x.m >= 2 ^ (USIZE_BITS - x.e)

\* `x as usize` of a non-negative integer-valued f64: the cast saturates at
\* usize::MAX (sat).
as_usize(x) ==
    IF exceeds_usize(x)
    THEN [sat |-> TRUE, m |-> 0, e |-> 0]
    ELSE [sat |-> FALSE, m |-> x.m, e |-> x.e]

pos_to_tile_of(tx, ty) ==
    [tile |-> <<as_usize(tx[1]), as_usize(ty[1])>>, uv |-> <<tx[2], ty[2]>>]

\* The two coordinates change places.
pos_to_tile_swapped(p) == pos_to_tile_of(modf(p[2]), modf(p[1]))

pos_to_tile(p) == pos_to_tile_of(modf(p[1]), modf(p[2]))

InitPos ==
    /\ Renderer_new
    /\ thread = [w \in Workers |-> "running"]
    /\ probe \in {[phase |-> "pos", p |-> <<x, y>>] :
                      x \in F64Samples, y \in F64Samples}

PosToTile ==
    /\ probe.phase = "pos"
    /\ probe' = [phase |-> "pos_done", p |-> probe.p, r |-> pos_to_tile(probe.p)]
    /\ UNCHANGED <<cache, baking, outbox, num_baking, to_work, from_work, hand,
                   thread, dropped, next_uid, nsent, last>>

NextPos == PosToTile

SpecPos == InitPos /\ [][NextPos]_vars

\* The tile index t and the offset off split the coordinate x: t is the
\* integer floor x, off is x - floor x, and 0 <= off < 1.
Splits(x, t, off) ==
    /\ ~t.sat
    /\ IF x.e < 0
       THEN /\ t.e = 0
            /\ t.m * (2 ^ (0 - x.e)) <= x.m
            /\ x.m < (t.m + 1) * (2 ^ (0 - x.e))
            /\ off.e = x.e
            /\ off.m = x.m - t.m * (2 ^ (0 - x.e))
            /\ 0 <= off.m
            /\ off.m < 2 ^ (0 - x.e)
       ELSE /\ t.m = x.m
            /\ t.e = x.e
            /\ off.m = 0

\* x is num/den.
IsValue(x, num, den) == x.e < 0 /\ x.m * den = num * (2 ^ (0 - x.e))

\* The coordinate x is below 2^USIZE_BITS: its floor is a usize.
FitsUsize(x) ==
    /\ x.e < USIZE_BITS
    /\ x.e <= USIZE_BITS - 31 \/ x.m < 2 ^ (USIZE_BITS - x.e)

\* C20 as claimed: for every non-negative (x, y), pos_to_tile returns the tile
\* (floor x, floor y) and the offset (x - floor x, y - floor y), both offset
\* components in [0, 1).
C20_AsClaimed ==
    probe.phase = "pos_done" =>
        \A i \in 1 .. 2 : Splits(probe.p[i], probe.r.tile[i], probe.r.uv[i])

\* C20 amended: for every non-negative (x, y), each coordinate below 2^64 (the
\* range of usize) is split into its tile index, the floor, and its offset,
\* the coordinate minus the floor, in [0, 1); (1.25, 4.125) gives the tile
\* (1, 4) and the offset (0.25, 0.125).
C20_PosToTile ==
    probe.phase = "pos_done" =>
        /\ \A i \in 1 .. 2 :
               FitsUsize(probe.p[i]) =>
                   Splits(probe.p[i], probe.r.tile[i], probe.r.uv[i])
        /\ (IsValue(probe.p[1], 5, 4) /\ IsValue(probe.p[2], 33, 8)) =>
               /\ probe.r.tile = <<as_usize(F64(1, 0)), as_usize(F64(4, 0))>>
               /\ IsValue(probe.r.uv[1], 1, 4)
               /\ IsValue(probe.r.uv[2], 1, 8)

\* C20 witness: pos_to_tile(1.25, 4.125) has returned the tile (1, 4).
C20_Witness ==
    /\ probe.phase = "pos_done"
    /\ IsValue(probe.p[1], 5, 4)
    /\ IsValue(probe.p[2], 33, 8)
    /\ probe.r.tile[1].m = 1
    /\ probe.r.tile[2].m = 4
    /\ ~probe.r.tile[1].sat /\ ~probe.r.tile[2].sat

----------------------------------------------------------------------------
(* Termination of render_tile. *)

\* The keys of one grid position whose center, one neighbor and overlay vary
\* over the palette.
C23_Keys ==
    {TileKey(0, n, 0, 0, c, 0, 0, 0, 0, g) :
        n \in BlockIds, c \in BlockIds, g \in Goodies}

\* The call that returned r ended without exhausting the recursion depth, made
\* at most one nested call, and the nested call was for the key of the center
\* and the overlay, which is its own canonical key and has all-empty
\* neighbors, and ended at a cache entry or at the empty placeholder.
C23_Ends(r) ==
    /\ ~r.self.stalled
    /\ Len(r.trace) \in {1, 2}
    /\ r.trace[Len(r.trace)].how \in {"cached", "baked", "empty"}
    /\ r.trace[Len(r.trace)].how = "empty" <=> r.ret = empty
    /\ r.trace[Len(r.trace)].how # "empty"
          => r.ret = r.self.cache[r.trace[Len(r.trace)].key]
    /\ Len(r.trace) = 2 =>
          /\ r.trace[1].how = "nested"
          /\ r.trace[2].key = center_and_goody(r.trace[1].key)
          /\ NeighborsEmpty(r.trace[2].key)

\* C23: render_tile terminates for every TileKey, in every state of the
\* Renderer: the degrade recursion is entered at most once per top-level call,
\* because the nested request is for a key with all-empty neighbors, which
\* canonicalizes to itself and ends at the cache entry or the empty
\* placeholder.
C23_Terminates ==
    ~dropped => \A tilekey \in C23_Keys : C23_Ends(render_tile(Self, tilekey, 0))

\* C23 witness: a call for a key with a neighbor entered the degrade recursion
\* once, and the nested call ended at the cache entry of the center block.
C23_Witness ==
    /\ Len(last.trace) = 2
    /\ ~NeighborsEmpty(last.key)
    /\ last.trace[1].how = "nested"
    /\ last.trace[2].how = "cached"
    /\ last.ret # empty

----------------------------------------------------------------------------
(* The render part: SharedData.  An f64 coordinate or ray parameter is kept   *)
(* as an integer number of units of 2^-20 (1048576 units are 1.0), a          *)
(* component of a direction or of a normal as units of 2^-10, and a height   *)
(* as its height-map byte: the physical height is byte * HM_MAX / 255 with    *)
(* HM_MAX = 1/2, so a height h and a coordinate z compare as h * 524288 and   *)
(* z * 255.  Products and quotients are rounded down to the unit.             *)

\* Surface::default(): empty images.
Surface_default ==
    [hm |-> Image_new(<<0, 0>>), dm |-> Image_new(<<0, 0>>),
     hm_min |-> 0, hm_max |-> 0]

\* The diffuse map is Image::new(dim).
Surface_from_fn(dim, f) == Surface_new(Image_from_fn(dim, f), Image_new(dim))

\* common/math.rs
min(a, b) == IF a < b THEN a ELSE b

\* surface.rs clamp
clamp(x, mx) == IF x >= mx THEN mx - 1 ELSE IF x < 0 THEN 0 ELSE x

I32_MAX == 2147483647

\* `x as i32` of the f64 x = m * 2^e: the fraction is dropped (toward zero) and
\* the cast saturates at i32::MIN and i32::MAX.
as_i32(m, e) ==
    IF e >= 31 /\ m > 0 THEN I32_MAX
    ELSE IF e >= 31 /\ m < 0 THEN (0 - I32_MAX) - 1
    ELSE IF e >= 31 THEN 0
    ELSE IF e >= 0 THEN m * (2 ^ e)
    ELSE IF m >= 0 THEN m \div (2 ^ (0 - e))
    ELSE 0 - ((0 - m) \div (2 ^ (0 - e)))

\* The pixel is not clamped at 0.
height_at_uv_pix_no_floor(surf, uv) ==
    <<min(as_i32(uv[1].m * surf.hm.dim[1], uv[1].e), surf.hm.dim[1] - 1),
      min(as_i32(uv[2].m * surf.hm.dim[2], uv[2].e), surf.hm.dim[2] - 1)>>

\* The pixel height_at_uv reads: (uv * w) as i32, clamped.
height_at_uv_pix(surf, uv) ==
    <<clamp(as_i32(uv[1].m * surf.hm.dim[1], uv[1].e), surf.hm.dim[1]),
      clamp(as_i32(uv[2].m * surf.hm.dim[2], uv[2].e), surf.hm.dim[2])>>

\* The pixel is taken at (uv.y, uv.x).
height_at_uv_transposed(surf, uv) ==
    Image_at(surf.hm, height_at_uv_pix(surf, <<uv[2], uv[1]>>))

height_at_uv(surf, uv) == Image_at(surf.hm, height_at_uv_pix(surf, uv))

\* The largest r with r * r <= n, for lo * lo <= n < (hi + 1) * (hi + 1).
RECURSIVE sqrt(_, _, _)
sqrt(n, lo, hi) ==
    IF lo >= hi THEN lo
    ELSE IF ((lo + hi + 1) \div 2) * ((lo + hi + 1) \div 2) <= n
    THEN sqrt(n, (lo + hi + 1) \div 2, hi)
    ELSE sqrt(n, lo, ((lo + hi + 1) \div 2) - 1)

\* Vector::normalized: self * (1. / self.len()), in units of 2^-10.
normalized(v) ==
    [i \in 1 .. 3 |->
        (v[i] * 1024) \div sqrt(v[1] * v[1] + v[2] * v[2] + v[3] * v[3], 0, 46340)]

\* Surface::normal_at: the central differences of the height map, clamped at
\* the border; a difference of d bytes over 2/w is d * w / 1020.
Surface_normal_at(surf, pix) ==
    normalized(
        <<0 - (((Image_at(surf.hm, <<min(pix[1] + 1, surf.hm.dim[1] - 1), pix[2]>>)
                 - Image_at(surf.hm, <<max(pix[1] - 1, 0), pix[2]>>))
                * surf.hm.dim[2] * 1024) \div 1020),
          0 - (((Image_at(surf.hm, <<pix[1], min(pix[2] + 1, surf.hm.dim[2] - 1)>>)
                 - Image_at(surf.hm, <<pix[1], max(pix[2] - 1, 0)>>))
                * surf.hm.dim[1] * 1024) \div 1020),
          1024>>)

\* self.palette[block as usize]
surface(self, block) == self.palette[block + 1]

\* The fold over the nine blocks, then the goody.
max_height(self, k) ==
    IF k.goody # 0
    THEN max(fold_max(0, [i \in 1 .. 9 |->
                 hm_max(surface(self, at(k, (i - 1) \div 3, (i - 1) % 3)))]),
             hm_max(surface(self, k.goody)))
    ELSE fold_max(0, [i \in 1 .. 9 |->
                 hm_max(surface(self, at(k, (i - 1) \div 3, (i - 1) % 3)))])

\* The alpha of the goody's diffuse map decides.
normal_at(self, chunk, pix) ==
    IF chunk.goody # 0 /\ Image_at(surface(self, chunk.goody).dm, pix) # 0
    THEN Surface_normal_at(surface(self, chunk.goody), pix)
    ELSE Surface_normal_at(surface(self, center(chunk)), pix)

\* The goody's height is taken wherever there is a goody.
height_at_ignores_alpha(self, chunk, pix) ==
    IF chunk.goody # 0
    THEN Image_at(surface(self, chunk.goody).hm, pix)
    ELSE Image_at(surface(self, center(chunk)).hm, pix)

height_at(self, chunk, pix) ==
    IF chunk.goody # 0 /\ Image_at(surface(self, chunk.goody).dm, pix) # 0
    THEN Image_at(surface(self, chunk.goody).hm, pix)
    ELSE Image_at(surface(self, center(chunk)).hm, pix)

\* The offset of the center tile is left out of to_abs_pos.
shade_pix_pos_no_tile(self, chunk, pix) ==
    [i \in 1 .. 3 |->
        (IF i = 3 THEN (height_at(self, chunk, pix) * 524288) \div 255
         ELSE pix[i] * (1048576 \div GRID))
        + (normal_at(self, chunk, pix)[i] * 2048) \div 100]

\* shade_pix, lines 325-330: the point the shadow rays of pixel pix start
\* from: to_abs_pos(Usize2(1, 1), pix) at the height of the pixel, moved by
\* 0.02 along the normal.
shade_pix_pos(self, chunk, pix) ==
    [i \in 1 .. 3 |->
        (IF i = 3 THEN (height_at(self, chunk, pix) * 524288) \div 255
         ELSE 1048576 + pix[i] * (1048576 \div GRID))
        + (normal_at(self, chunk, pix)[i] * 2048) \div 100]

\* pos_to_tile of a position in units of 2^-20.
pos_to_tile_at(pos) == pos_to_tile(<<F64(pos[1], 0 - 20), F64(pos[2], 0 - 20)>>)

\* chunk.blocks[tile.1][tile.0]
block_at(chunk, pt) == chunk.blocks[pt.tile[2].m + 1][pt.tile[1].m + 1]

\* height_at_pos panics: an index into the blocks, the palette or a height
\* map is out of bounds.
height_at_pos_panics(self, chunk, pt) ==
    \/ pt.tile[1].sat \/ pt.tile[2].sat
    \/ pt.tile[1].m \notin 0 .. 2 \/ pt.tile[2].m \notin 0 .. 2
    \/ block_at(chunk, pt) >= Len(self.palette)
    \/ ~in_image(surface(self, block_at(chunk, pt)).hm,
                 height_at_uv_pix(surface(self, block_at(chunk, pt)), pt.uv))
    \/ /\ chunk.goody # 0
       /\ pt.tile[1].m = 1 /\ pt.tile[2].m = 1
       /\ \/ chunk.goody >= Len(self.palette)
          \/ ~in_image(surface(self, chunk.goody).hm,
                       height_at_uv_pix(surface(self, chunk.goody), pt.uv))

height_at_pos(self, chunk, pt) ==
    IF chunk.goody # 0 /\ pt.tile[1].m = 1 /\ pt.tile[2].m = 1
    THEN max(height_at_uv(surface(self, chunk.goody), pt.uv),
             height_at_uv(surface(self, block_at(chunk, pt)), pt.uv))
    ELSE height_at_uv(surface(self, block_at(chunk, pt)), pt.uv)

\* Ray::at: start + t * dir.
Ray_at(r, t) == [i \in 1 .. 3 |-> r.start[i] + (t * r.dir[i]) \div 1024]

\* f64::cos of a direction component z (|z| <= 1, in units of 2^-10), by its
\* series up to z^8, in units of 2^-20.
cos(z) ==
    LET z2 == z * z
        z4 == (z2 * (z2 \div 1024)) \div 1024
        z6 == (z4 * (z2 \div 1024)) \div 1024
        z8 == (z6 * (z2 \div 1024)) \div 1024
    IN  1048576 - (z2 \div 2) + (z4 \div 24) - (z6 \div 720) + (z8 \div 40320)

\* 0.7 / (r.dir.z().cos() * GRID as f64); 0.7 is 734003 units of 2^-20.
stride(r) == ((734003 * 2048) \div (cos(r.dir[3]) \div 512)) \div GRID

\* The hit test is passed when the height equals p.z.
step_hit_on_equal(self, chunk, maxh, p) ==
    IF p[3] * 255 > maxh * 524288 THEN "escaped"
    ELSE IF height_at_pos_panics(self, chunk, pos_to_tile_at(p)) THEN "panic"
    ELSE IF height_at_pos(self, chunk, pos_to_tile_at(p)) * 524288 >= p[3] * 255
    THEN "hit"
    ELSE "next"

\* One pass of the loop of intersects at the point p, lines 406-411.
step(self, chunk, maxh, p) ==
    IF p[3] * 255 > maxh * 524288 THEN "escaped"
    ELSE IF height_at_pos_panics(self, chunk, pos_to_tile_at(p)) THEN "panic"
    ELSE IF height_at_pos(self, chunk, pos_to_tile_at(p)) * 524288 > p[3] * 255
    THEN "hit"
    ELSE "next"

\* The point of pass i (0, 1, ...) of the loop: t starts at stride and is
\* advanced by stride before the point is taken.
march_point(r, i) == Ray_at(r, stride(r) + (i + 1) * stride(r))

\* The passes that leave the loop.
march_ends(self, chunk, r, maxh) ==
    {i \in 0 .. (GRID - 3) : step(self, chunk, maxh, march_point(r, i)) # "next"}

\* The loop returns true when its passes are used up.
march_occluded_at_budget(self, chunk, r, maxh, ends) ==
    IF ends = {}
    THEN [ret |-> TRUE, how |-> "budget", steps |-> GRID - 2]
    ELSE [ret |-> \E i \in ends :
                     /\ \A j \in ends : i <= j
                     /\ step(self, chunk, maxh, march_point(r, i)) = "hit",
          how |-> step(self, chunk, maxh,
                       march_point(r, CHOOSE i \in ends : \A j \in ends : i <= j)),
          steps |-> CHOOSE i \in ends : \A j \in ends : i <= j]

\* The loop of intersects, lines 402-413: it returns in the first pass that
\* leaves it, and false after GRID - 2 passes.  steps is the number of passes
\* before the returning one.
march(self, chunk, r, maxh, ends) ==
    IF ends = {}
    THEN [ret |-> FALSE, how |-> "budget", steps |-> GRID - 2]
    ELSE [ret |-> \E i \in ends :
                     /\ \A j \in ends : i <= j
                     /\ step(self, chunk, maxh, march_point(r, i)) = "hit",
          how |-> step(self, chunk, maxh,
                       march_point(r, CHOOSE i \in ends : \A j \in ends : i <= j)),
          steps |-> CHOOSE i \in ends : \A j \in ends : i <= j]

\* The rays that point down are marched like the others.
intersects_marches_down(self, chunk, r) ==
    march(self, chunk, r, max_height(self, chunk),
          march_ends(self, chunk, r, max_height(self, chunk)))

intersects(self, chunk, r) ==
    IF r.dir[3] <= 0 THEN [ret |-> TRUE, how |-> "down", steps |-> 0]
    ELSE march(self, chunk, r, max_height(self, chunk),
               march_ends(self, chunk, r, max_height(self, chunk)))

----------------------------------------------------------------------------
(* The shadow test on sample scenes: the scene of test_intersects, and game   *)
(* scenes over the palette of the model with a goody added as the next       *)
(* block id.  (canonicalize reads the center and the neighbors only, which   *)
(* are blocks of the palette of the model.)                                  *)

\* The palette of test_intersects.
TestPalette ==
    << Surface_default,
       Surface_from_fn(<<GRID, GRID>>,
                       [x \in Pix, y \in Pix |-> IF x > GRID \div 2 THEN U8_MAX ELSE 0]) >>

\* A goody: opaque in its right half, low in its upper half.
GoodySurface ==
    Surface_new(Image_from_fn(<<GRID, GRID>>,
                              [x \in Pix, y \in Pix |-> IF y < GRID \div 2 THEN 10 ELSE 90]),
                Image_from_fn(<<GRID, GRID>>,
                              [x \in Pix, y \in Pix |-> IF x >= GRID \div 2 THEN U8_MAX ELSE 0]))

\* SharedData::new(palette, lights) of a scene.
SharedData(data) ==
    [palette |-> IF data = "test" THEN TestPalette ELSE Palette \o <<GoodySurface>>]

\* The chunk of test_intersects.
TestChunk == TileKey(1, 0, 0, 0, 1, 0, 0, 0, 0, 0)

\* The start of test_intersects, (1.25, 1.5, 0.0), and a start over the raised
\* half from which the first marched point of the ray straight up is at the
\* height of the surface.
TestStarts ==
    {<<1310720, 1572864, 0>>,
     <<1835008, 1572864, 524288 - 2 * stride([dir |-> <<0, 0, 1024>>])>>}

\* The directions of test_intersects, and others.
RayDirs ==
    {normalized(d) : d \in {<<0, 0, 1>>, <<0, 1, 0>>, <<1, 0, 0>>, <<100, 0, 1>>,
                            <<1000, 0, 2000>>, <<10, 0, 1>>, <<0 - 100, 0, 1>>,
                            <<0, 100, 1>>, <<0, 0 - 100, 1>>, <<0, 0, 0 - 1>>}}

\* Keys of one grid position: the center, the east neighbor and the goody vary.
GameChunks ==
    {TileKey(0, 0, 0, 0, c, e, 0, 0, 0, g) :
        c \in BlockIds, e \in BlockIds, g \in {0, Len(Palette)}}

GamePixels == {<<x, y>> : x \in {0, GRID \div 2 - 1, GRID - 1},
                           y \in {0, GRID \div 4, GRID \div 2, GRID - 1}}

InitRay ==
    /\ Renderer_new
    /\ thread = [w \in Workers |-> "running"]
    /\ probe \in
          {[phase |-> "ray", data |-> "test", chunk |-> TestChunk,
            ray |-> [start |-> s, dir |-> d]] : s \in TestStarts, d \in RayDirs}
          \cup
          {[phase |-> "pix", data |-> "game", chunk |-> k, pix |-> p, dir |-> d] :
              k \in GameChunks, p \in GamePixels, d \in RayDirs}

\* shade_pix up to the start of its shadow rays; the direction of the ray
\* stands for a sample of ambient_fraction or sun_fraction.
ShadePix ==
    /\ probe.phase = "pix"
    /\ probe' = [phase |-> "ray", data |-> probe.data, chunk |-> probe.chunk,
                 pix |-> probe.pix,
                 height |-> height_at(SharedData(probe.data), probe.chunk, probe.pix),
                 normal |-> normal_at(SharedData(probe.data), probe.chunk, probe.pix),
                 ray |-> [start |-> shade_pix_pos(SharedData(probe.data),
                                                  probe.chunk, probe.pix),
                          dir |-> probe.dir]]
    /\ UNCHANGED <<cache, baking, outbox, num_baking, to_work, from_work, hand,
                   thread, dropped, next_uid, nsent, last>>

\* intersects(chunk, r)
Intersects ==
    /\ probe.phase = "ray"
    /\ probe' = [f \in DOMAIN probe \cup {"r"} |->
                    IF f = "phase" THEN "shadow"
                    ELSE IF f = "r"
                    THEN intersects(SharedData(probe.data), probe.chunk, probe.ray)
                    ELSE probe[f]]
    /\ UNCHANGED <<cache, baking, outbox, num_baking, to_work, from_work, hand,
                   thread, dropped, next_uid, nsent, last>>

\* The same ray in the chunk the Renderer sends to the bakery: the canonical
\* key.
IntersectsCanonical ==
    /\ probe.phase = "shadow"
    /\ probe.data = "game"
    /\ probe' = [f \in DOMAIN probe \cup {"rc"} |->
                    IF f = "phase" THEN "canonical"
                    ELSE IF f = "rc"
                    THEN intersects(SharedData(probe.data),
                                    canonicalize(probe.chunk), probe.ray)
                    ELSE probe[f]]
    /\ UNCHANGED <<cache, baking, outbox, num_baking, to_work, from_work, hand,
                   thread, dropped, next_uid, nsent, last>>

NextRay == ShadePix \/ Intersects \/ IntersectsCanonical

SpecRay == InitRay /\ [][NextRay]_vars

\* A shadow test has been made.
Shadowed == probe.phase \in {"shadow", "canonical"}

\* The marched point of pass i of the shadow test made.
Marched(i) == march_point(probe.ray, i)

\* The height field under the marched point of pass i cannot be read.
PanicsAt(i) ==
    height_at_pos_panics(SharedData(probe.data), probe.chunk,
                         pos_to_tile_at(Marched(i)))

\* The height field under the marched point of pass i.
HeightAt(i) ==
    height_at_pos(SharedData(probe.data), probe.chunk, pos_to_tile_at(Marched(i)))

\* C21: the shadow test on a step-shaped center block (left half at height 0,
\* right half at maximum height) with the shading point on the low half: a
\* ray straight up is unoccluded, a horizontal ray is occluded, a shallow
\* upward ray aimed at the raised half is occluded, and a sufficiently steep
\* upward ray aimed at the raised half is unoccluded.
C21_StepShadow ==
    (/\ probe.phase = "shadow"
     /\ probe.data = "test"
     /\ probe.ray.start = <<1310720, 1572864, 0>>) =>
        /\ probe.ray.dir = normalized(<<0, 0, 1>>) => ~probe.r.ret
        /\ probe.ray.dir \in {normalized(<<0, 1, 0>>), normalized(<<1, 0, 0>>)}
              => probe.r.ret
        /\ probe.ray.dir = normalized(<<100, 0, 1>>) => probe.r.ret
        /\ probe.ray.dir = normalized(<<1000, 0, 2000>>) => ~probe.r.ret

\* C21 witness: the shallow upward ray of test_intersects has been marched
\* from the low half into the raised half, where it hit.
C21_Witness ==
    /\ probe.phase = "shadow"
    /\ probe.data = "test"
    /\ probe.ray = [start |-> <<1310720, 1572864, 0>>,
                    dir |-> normalized(<<100, 0, 1>>)]
    /\ probe.r.ret
    /\ probe.r.how = "hit"
    /\ probe.r.steps > 0
    /\ HeightAt(probe.r.steps) = U8_MAX
    /\ HeightAt(probe.r.steps - 1) = 0

\* C24 as claimed: for every TileKey k, with or without an overlay, and every
\* shadow ray started at a shading point of the center tile, the shadow test
\* gives the same answer for k as for canonicalize(k).
C24_AsClaimed ==
    probe.phase = "canonical" => probe.rc.ret = probe.r.ret

\* C26 as claimed: during ray marching the shadow test reports the ray
\* occluded as soon as the height field at the marched point's (x, y) meets
\* or exceeds the marched point's z, the two being equal included.
C26_AsClaimed ==
    (Shadowed /\ probe.ray.dir[3] > 0) =>
        \A i \in 0 .. (GRID - 3) :
            (/\ i <= probe.r.steps
             /\ ~PanicsAt(i)
             /\ HeightAt(i) * 524288 >= Marched(i)[3] * 255)
                => (probe.r.ret /\ probe.r.how = "hit" /\ probe.r.steps = i)

\* C26 amended: during ray marching the shadow test reports the ray occluded
\* as soon as the height field at the marched point's (x, y) exceeds the
\* marched point's z; a marched point at which the two are exactly equal is
\* not a hit.
C26_HitRule ==
    (Shadowed /\ probe.ray.dir[3] > 0) =>
        \A i \in 0 .. (GRID - 3) :
            (i <= probe.r.steps /\ ~PanicsAt(i)) =>
                /\ HeightAt(i) * 524288 > Marched(i)[3] * 255
                      => (probe.r.ret /\ probe.r.how = "hit" /\ probe.r.steps = i)
                /\ HeightAt(i) * 524288 = Marched(i)[3] * 255
                      => ~(probe.r.how = "hit" /\ probe.r.steps = i)

\* C26 witness: the first marched point of a ray was exactly at the height of
\* the surface under it, and the shadow test went on past it.
C26_Witness ==
    /\ Shadowed
    /\ probe.ray.dir[3] > 0
    /\ ~PanicsAt(0)
    /\ HeightAt(0) > 0
    /\ HeightAt(0) * 524288 = Marched(0)[3] * 255
    /\ probe.r.steps > 0

\* C27: a ray with dir.z <= 0 is reported occluded by the shadow test for
\* every TileKey and every start point, without marching, even over a
\* neighborhood whose surfaces all have height 0.
C27_DownOccluded ==
    (Shadowed /\ probe.ray.dir[3] <= 0) =>
        (probe.r.ret /\ probe.r.how = "down" /\ probe.r.steps = 0)

\* C27 witness: a horizontal ray over the all-empty neighborhood, which no
\* marched point of it would ever hit, has been reported occluded.
C27_Witness ==
    /\ Shadowed
    /\ probe.chunk = TileKey_new
    /\ probe.ray.dir[3] = 0
    /\ probe.r.ret
    /\ \A i \in 0 .. (GRID - 3) :
          ~PanicsAt(i) /\ HeightAt(i) * 524288 <= Marched(i)[3] * 255

\* The maximum heights of the surfaces of the nine cells and of the overlay of
\* the chunk.
ChunkHeights ==
    {hm_max(surface(SharedData(probe.data), b)) :
        b \in {at(probe.chunk, c[1], c[2]) : c \in (0 .. 2) \X (0 .. 2)}
                 \cup {probe.chunk.goody}}

\* The maximum height over the nine cells and the overlay of the chunk.
MaxOverChunk ==
    CHOOSE m \in ChunkHeights : \A h \in ChunkHeights : h <= m

\* C28: for an upward ray the shadow test returns unoccluded when a marched
\* point's z exceeds the maximum height over all nine cells and the overlay
\* before any hit is found (the escape check is made before the hit check in
\* each step), and also when the fixed budget of GRID-2 steps is used up
\* without a hit.
C28_Unoccluded ==
    (Shadowed /\ probe.ray.dir[3] > 0) =>
        /\ \A i \in 0 .. (GRID - 3) :
              (/\ i <= probe.r.steps
               /\ Marched(i)[3] * 255 > MaxOverChunk * 524288)
                  => (~probe.r.ret /\ probe.r.how = "escaped" /\ probe.r.steps = i)
        /\ (\A i \in 0 .. (GRID - 3) :
               /\ ~PanicsAt(i)
               /\ Marched(i)[3] * 255 <= MaxOverChunk * 524288
               /\ HeightAt(i) * 524288 <= Marched(i)[3] * 255)
              => (~probe.r.ret /\ probe.r.how = "budget" /\ probe.r.steps = GRID - 2)

\* C28 witness: an upward ray over a chunk with an overlay used up its GRID-2
\* steps below the maximum height without a hit.
C28_Witness ==
    /\ Shadowed
    /\ probe.ray.dir[3] > 0
    /\ probe.chunk.goody # 0
    /\ probe.r.how = "budget"
    /\ ~probe.r.ret
    /\ Marched(GRID - 3)[3] * 255 <= MaxOverChunk * 524288

\* C30: overlay selection per pixel: the shading height and normal of a pixel
\* are taken from the overlay surface if and only if the key's overlay id is
\* non-zero and the overlay's diffuse alpha at that pixel is non-zero;
\* otherwise they are taken from the center block.
C30_OverlaySelection ==
    (probe.phase = "ray" /\ probe.data = "game") =>
        IF /\ probe.chunk.goody # 0
           /\ Image_at(surface(SharedData(probe.data), probe.chunk.goody).dm,
                       probe.pix) # 0
        THEN /\ probe.height
                   = Image_at(surface(SharedData(probe.data), probe.chunk.goody).hm,
                              probe.pix)
             /\ probe.normal
                   = Surface_normal_at(surface(SharedData(probe.data),
                                               probe.chunk.goody), probe.pix)
        ELSE /\ probe.height
                   = Image_at(surface(SharedData(probe.data), center(probe.chunk)).hm,
                              probe.pix)
             /\ probe.normal
                   = Surface_normal_at(surface(SharedData(probe.data),
                                               center(probe.chunk)), probe.pix)

\* C30 witness: a pixel under the opaque part of an overlay, where the overlay
\* and the center block differ in height and in normal, has been shaded with
\* the overlay's.
C30_Witness ==
    /\ probe.phase = "ray"
    /\ probe.data = "game"
    /\ probe.chunk.goody # 0
    /\ Image_at(surface(SharedData(probe.data), probe.chunk.goody).dm, probe.pix) # 0
    /\ probe.height
           # Image_at(surface(SharedData(probe.data), center(probe.chunk)).hm, probe.pix)
    /\ probe.normal
           # Surface_normal_at(surface(SharedData(probe.data), center(probe.chunk)),
                               probe.pix)
    /\ probe.height
           = Image_at(surface(SharedData(probe.data), probe.chunk.goody).hm, probe.pix)


\* C40: ray marching stays inside the 3x3 neighborhood: for a shadow ray that
\* starts at a shading point of the center tile and points up, the points of
\* all GRID - 2 passes of the loop have x and y in [0, 3), so their tile
\* coordinates are 0, 1 or 2 and the block lookup of height_at_pos is inside
\* the grid of the TileKey.
C40_StaysInNeighborhood ==
    (probe.phase = "shadow" /\ probe.ray.dir[3] > 0) =>
        /\ \A i \in 0 .. (GRID - 3) :
              /\ 0 <= Marched(i)[1] /\ Marched(i)[1] < 3 * 1048576
              /\ 0 <= Marched(i)[2] /\ Marched(i)[2] < 3 * 1048576
              /\ ~pos_to_tile_at(Marched(i)).tile[1].sat
              /\ ~pos_to_tile_at(Marched(i)).tile[2].sat
              /\ pos_to_tile_at(Marched(i)).tile[1].m \in 0 .. 2
              /\ pos_to_tile_at(Marched(i)).tile[2].m \in 0 .. 2
        /\ probe.r.how = "panic" =>
              /\ pos_to_tile_at(Marched(probe.r.steps)).tile[1].m \in 0 .. 2
              /\ pos_to_tile_at(Marched(probe.r.steps)).tile[2].m \in 0 .. 2

\* C40 witness: a ray almost level, from a pixel on the border of the center
\* tile towards the neighbor, used all its passes and ended in the neighbor
\* tile.
C40_Witness ==
    /\ probe.phase = "shadow"
    /\ probe.data = "game"
    /\ probe.ray.dir[3] > 0
    /\ probe.r.how = "budget"
    /\ \/ pos_to_tile_at(Marched(GRID - 3)).tile[1].m # 1
       \/ pos_to_tile_at(Marched(GRID - 3)).tile[2].m # 1

----------------------------------------------------------------------------
(* linear_to_srgb (tracer/color.rs).  An input c is an integer number of      *)
(* units of 2^-24; a result is the exact fraction num/den.  The power         *)
(* c^(1/2.4) = c^(5/12) is taken at the inputs that are twelfth powers        *)
(* (a/4)^12, where it is (a/4)^5; the rounding of f32 is left out.            *)

\* Inputs run from -MaxSrgbSample to MaxSrgbSample units, and over the
\* twelfth powers.
MaxSrgbSample == 60

\* clip: color value between 0 and 1 (16777216 units).
clip(v) == IF v < 0 THEN 0 ELSE IF v > 16777216 THEN 16777216 ELSE v

\* c.powf(1. / 2.4) of c = (a/4)^12, in units of 1/1024: a^5.
powf(c) == (CHOOSE a \in 0 .. 4 : a ^ 12 = c) ^ 5

\* The constant of the power branch is that of the sRGB transfer function.
linear_to_srgb_standard(c) ==
    IF clip(c) <= 52526 THEN [num |-> 1292 * clip(c), den |-> 1677721600]
    ELSE IF 1055 * powf(clip(c)) - 56320 > 1024000 THEN [num |-> 1, den |-> 1]
    ELSE [num |-> 1055 * powf(clip(c)) - 56320, den |-> 1024000]

\* 0.0031308 lies between 52526 and 52527 units; 12.92 * c is 1292 * c over
\* 100 * 2^24; 1.055 * (a/4)^5 - 0.05 is (1055 * a^5 - 51200) / 1024000.
linear_to_srgb(c) ==
    IF clip(c) <= 52526 THEN [num |-> 1292 * clip(c), den |-> 1677721600]
    ELSE IF 1055 * powf(clip(c)) - 51200 > 1024000 THEN [num |-> 1, den |-> 1]
    ELSE [num |-> 1055 * powf(clip(c)) - 51200, den |-> 1024000]

InitSrgb ==
    /\ Renderer_new
    /\ thread = [w \in Workers |-> "running"]
    /\ probe \in {[phase |-> "linear", c |-> c] :
                     c \in ((0 - MaxSrgbSample) .. MaxSrgbSample)
                               \cup {52526} \cup {a ^ 12 : a \in 0 .. 5}}

LinearToSrgb ==
    /\ probe.phase = "linear"
    /\ probe' = [phase |-> "srgb", c |-> probe.c, r |-> linear_to_srgb(probe.c)]
    /\ UNCHANGED <<cache, baking, outbox, num_baking, to_work, from_work, hand,
                   thread, dropped, next_uid, nsent, last>>

SpecSrgb == InitSrgb /\ [][LinearToSrgb]_vars

\* The fractions x and y are the same number.
SameFraction(x, y) ==
    IF x.den = y.den THEN x.num = y.num ELSE x.num * y.den = y.num * x.den

\* C29 as claimed: linear_to_srgb equals the standard sRGB transfer function
\* for every input: 12.92*c for clipped c <= 0.0031308 and
\* 1.055*c^(1/2.4) - 0.055 above, with the result in [0, 1].
C29_AsClaimed ==
    probe.phase = "srgb" =>
        /\ SameFraction(probe.r, linear_to_srgb_standard(probe.c))
        /\ 0 <= probe.r.num
        /\ probe.r.num <= probe.r.den

----------------------------------------------------------------------------
(* Palette construction: load_palette reads a height map and a diffuse map  *)
(* per ED_PALETTE entry, default_palette unwraps its result and Map::from   *)
(* hands the palette to Renderer::new.                                      *)

\* The ED_PALETTE entries after entry 0 that are loaded from files.
MaxPaletteDefs == 2

PaletteDefs == 1 .. MaxPaletteDefs

\* What is found at a path: a decodable image, nothing, or a file that does
\* not decode.
FileStates == {"ok", "missing", "malformed"}

Ok == [ok |-> TRUE, err |-> ""]

Err(e) == [ok |-> FALSE, err |-> e]

\* Image::load: check_exists(p)?, then Reader::open(p)?.decode()?.
Image_load(p) ==
    IF p = "missing" THEN Err("no such file or directory")
    ELSE IF p = "malformed" THEN Err("decode")
    ELSE Ok

\* Surface::load: the height map first, then the diffuse map, each with `?`.
Surface_load(base) ==
    IF ~Image_load(base.hm).ok THEN Image_load(base.hm)
    ELSE IF ~Image_load(base.dm).ok THEN Image_load(base.dm)
    ELSE Ok

\* load_palette: Surface::load(&base)? for every entry in order; the first
\* failure is returned.
load_palette(texture_dir) ==
    IF \A d \in PaletteDefs : Surface_load(texture_dir[d]).ok THEN Ok
    ELSE Surface_load(texture_dir[
             CHOOSE d \in PaletteDefs :
                 /\ ~Surface_load(texture_dir[d]).ok
                 /\ \A e \in 1 .. d - 1 : Surface_load(texture_dir[e]).ok])

\* default_palette: load_palette(&texture_dir()).unwrap(); unwrap panics on Err.
default_palette(texture_dir) ==
    [panicked |-> ~load_palette(texture_dir).ok,
     ret |-> IF load_palette(texture_dir).ok THEN Ok ELSE Err("")]

\* Before Map::from: no Renderer, no worker thread, the texture directory in
\* any condition.
InitPalette ==
    /\ Renderer_new
    /\ thread = [w \in Workers |-> "none"]
    /\ probe \in {[phase |-> "files", dir |-> dir] :
                     dir \in [PaletteDefs -> [hm : FileStates, dm : FileStates]]}

\* Map::from: Renderer::new(default_palette(), lights); the argument is
\* evaluated first, and Bakery::new spawns every worker.
MapFrom ==
    /\ probe.phase = "files"
    /\ probe' = [phase |-> IF default_palette(probe.dir).panicked
                           THEN "panicked" ELSE "renderer",
                 dir |-> probe.dir,
                 load |-> load_palette(probe.dir),
                 got |-> default_palette(probe.dir).ret]
    /\ thread' = IF default_palette(probe.dir).panicked THEN thread
                 ELSE [w \in Workers |-> "running"]
    /\ UNCHANGED <<cache, baking, outbox, num_baking, to_work, from_work, hand,
                   dropped, next_uid, nsent, last>>

SpecPalette == InitPalette /\ [][MapFrom]_vars

\* Some palette image file is missing or malformed.
BadPaletteFile(dir) ==
    \E d \in PaletteDefs : dir[d].hm # "ok" \/ dir[d].dm # "ok"

\* C22 as claimed: when a palette image file is missing or malformed, the
\* caller of palette construction is handed an error value and goes on
\* running (nothing panics), no Renderer is created and no worker thread is
\* started.
C22_AsClaimed ==
    (probe.phase \in {"panicked", "renderer"} /\ BadPaletteFile(probe.dir)) =>
        /\ probe.phase # "panicked"
        /\ ~probe.got.ok
        /\ probe.phase # "renderer"
        /\ \A w \in Workers : thread[w] = "none"

----------------------------------------------------------------------------
(* Surfaces as values: Surface::new of every small height map, and           *)
(* Surface::default, then height_at_uv at coordinates inside and outside     *)
(* [0, 1).  Heights are the bytes of the height map: hm_min(), hm_max() and   *)
(* height_at() scale a byte by HM_SCALE = HM_MAX / 255, which keeps the       *)
(* order, and U8_MAX * HM_SCALE is HM_MAX.                                    *)

\* Height maps are up to MaxDim pixels wide and high.
MaxDim == 2

\* Coordinates are the multiples of 1/4 up to MaxUv quarters either way.
MaxUv == 5

HeightSamples == {0, U8_MAX}

HeightMaps ==
    UNION {{Image_from_fn(<<w, h>>, f) :
               f \in [(0 .. w - 1) \X (0 .. h - 1) -> HeightSamples]} :
           w \in 0 .. MaxDim, h \in 0 .. MaxDim}

\* The quarters, and two values beyond the range of i32.
UvSamples ==
    {F64(m, 0 - 2) : m \in (0 - MaxUv) .. MaxUv}
        \cup {F64(1, 40), F64(0 - 1, 40)}

InitSurface ==
    /\ Renderer_new
    /\ thread = [w \in Workers |-> "running"]
    /\ probe \in {[phase |-> "hm", hm |-> hm] : hm \in HeightMaps}
                     \cup {[phase |-> "none"]}

\* Surface::new(hm, dm) with a diffuse map of the same dimensions.
SurfaceNew ==
    /\ probe.phase = "hm"
    /\ probe' = [phase |-> "surface",
                 surf |-> Surface_new(probe.hm, Image_new(probe.hm.dim)),
                 made |-> "new"]
    /\ UNCHANGED <<cache, baking, outbox, num_baking, to_work, from_work, hand,
                   thread, dropped, next_uid, nsent, last>>

\* Surface::default()
SurfaceDefault ==
    /\ probe.phase = "none"
    /\ probe' = [phase |-> "surface", surf |-> Surface_default,
                 made |-> "default"]
    /\ UNCHANGED <<cache, baking, outbox, num_baking, to_work, from_work, hand,
                   thread, dropped, next_uid, nsent, last>>

\* surf.height_at_uv(uv): the index self.hm[y][x] panics outside the image.
HeightAtUv(uv) ==
    /\ probe.phase = "surface"
    /\ probe' = [phase |-> "height", surf |-> probe.surf, made |-> probe.made,
                 uv |-> uv,
                 pix |-> height_at_uv_pix(probe.surf, uv),
                 panicked |-> ~in_image(probe.surf.hm,
                                        height_at_uv_pix(probe.surf, uv)),
                 ret |-> IF in_image(probe.surf.hm,
                                     height_at_uv_pix(probe.surf, uv))
                         THEN height_at_uv(probe.surf, uv) ELSE 0]
    /\ UNCHANGED <<cache, baking, outbox, num_baking, to_work, from_work, hand,
                   thread, dropped, next_uid, nsent, last>>

NextSurface ==
    \/ SurfaceNew
    \/ SurfaceDefault
    \/ \E u \in UvSamples, v \in UvSamples : HeightAtUv(<<u, v>>)

SpecSurface == InitSurface /\ [][NextSurface]_vars

\* The pixels of an image.
PixelsOf(img) == (0 .. img.dim[1] - 1) \X (0 .. img.dim[2] - 1)

\* C31: a Surface built by Surface::new from a non-empty height map has
\* 0 <= hm_min <= height_at(p) <= hm_max <= HM_MAX at every pixel p, and some
\* pixel has the height hm_min and some pixel the height hm_max.
C31_TrueBounds ==
    (/\ probe.phase = "surface"
     /\ probe.made = "new"
     /\ PixelsOf(probe.surf.hm) # {}) =>
        /\ 0 <= hm_min(probe.surf)
        /\ hm_max(probe.surf) <= U8_MAX
        /\ \A p \in PixelsOf(probe.surf.hm) :
              /\ hm_min(probe.surf) <= Image_at(probe.surf.hm, p)
              /\ Image_at(probe.surf.hm, p) <= hm_max(probe.surf)
        /\ \E p \in PixelsOf(probe.surf.hm) :
              Image_at(probe.surf.hm, p) = hm_min(probe.surf)
        /\ \E p \in PixelsOf(probe.surf.hm) :
              Image_at(probe.surf.hm, p) = hm_max(probe.surf)

\* A surface of several pixels with different heights, and one whose lowest
\* pixel is above 0.
C31_Witness ==
    /\ probe.phase = "surface"
    /\ probe.made = "new"
    /\ Cardinality(PixelsOf(probe.surf.hm)) > 1
    /\ \/ hm_min(probe.surf) < hm_max(probe.surf)
       \/ hm_min(probe.surf) > 0

\* The pixel of the height map that holds the coordinate uv clamped into
\* [0, 1): the column floor(u * w) and the row floor(v * h), each moved to the
\* nearest column or row of the map.
NearestPixel(img, uv) ==
    [i \in 1 .. 2 |->
        IF uv[i].m < 0 THEN 0
        ELSE IF uv[i].e > 0 \/ uv[i].m >= 2 ^ (0 - uv[i].e) THEN img.dim[i] - 1
        ELSE CHOOSE n \in 0 .. img.dim[i] - 1 :
                 /\ n * (2 ^ (0 - uv[i].e)) <= uv[i].m * img.dim[i]
                 /\ uv[i].m * img.dim[i] < (n + 1) * (2 ^ (0 - uv[i].e))]

\* C32 as claimed: for every Surface and every coordinate, height_at_uv reads
\* a pixel inside the height map and returns its height.
C32_AsClaimed ==
    probe.phase = "height" =>
        /\ ~probe.panicked
        /\ probe.pix \in PixelsOf(probe.surf.hm)
        /\ probe.ret = Image_at(probe.surf.hm, probe.pix)

\* C32: for every Surface with a non-empty height map and every coordinate,
\* below 0 and at or above 1 included, height_at_uv reads without panicking the
\* pixel inside the height map nearest to the coordinate and returns its
\* height.
C32_ClampedRead ==
    (probe.phase = "height" /\ PixelsOf(probe.surf.hm) # {}) =>
        /\ ~probe.panicked
        /\ probe.pix \in PixelsOf(probe.surf.hm)
        /\ probe.pix = NearestPixel(probe.surf.hm, probe.uv)
        /\ probe.ret = Image_at(probe.surf.hm, probe.pix)

\* A coordinate below 0 on one axis and at or above 1 on the other, on a map
\* with more than one row and column.
C32_Witness ==
    /\ probe.phase = "height"
    /\ probe.surf.hm.dim = <<2, 2>>
    /\ probe.uv[1].m < 0
    /\ probe.uv[2].m >= 4
    /\ probe.ret = U8_MAX

----------------------------------------------------------------------------
(* The work queue as the workers see it (tracer/mpmc.rs): the receiver is    *)
(* behind a Mutex, and MReceiver::next is self.0.lock().unwrap().recv().ok(). *)
(* probe.lock is the worker that holds the MutexGuard, 0 if the Mutex is      *)
(* free.  A worker with a key in its hand is in the body of its loop.         *)

InitMpmc ==
    /\ Renderer_new
    /\ thread = [w \in Workers |-> "running"]
    /\ probe = [phase |-> "mpmc", lock |-> 0]

\* The caller: Bakery::send(tilekey).
MpmcSend(tilekey) ==
    \E r \in {Bakery_send(Self, tilekey)} :
        /\ SentTotal(nsent) < MaxSends
        /\ ~r.stalled /\ ~r.panicked
        /\ num_baking' = r.num_baking
        /\ to_work' = r.to_work
        /\ nsent' = r.nsent
        /\ UNCHANGED <<cache, baking, outbox, from_work, hand, thread, dropped,
                       next_uid, last, probe>>

\* The caller: Bakery::try_recv(tilekey).
MpmcTryRecv(tilekey) ==
    \E r \in {Bakery_try_recv(Self, tilekey)} :
        /\ outbox' = r.self.outbox
        /\ num_baking' = r.self.num_baking
        /\ from_work' = r.self.from_work
        /\ UNCHANGED <<cache, baking, to_work, hand, thread, dropped, next_uid,
                       nsent, last, probe>>

\* MReceiver::next, self.0.lock(): a worker at the head of its loop gets the
\* Mutex when it is free.
MReceiverLock(w) ==
    /\ thread[w] = "running"
    /\ ~hand[w].some
    /\ probe.lock = 0
    /\ probe' = [probe EXCEPT !.lock = w]
    /\ UNCHANGED <<cache, baking, outbox, num_baking, to_work, from_work, hand,
                   thread, dropped, next_uid, nsent, last>>

\* The guard is kept when next returns.
MReceiverRecv_keeps_guard(w) ==
    /\ probe.lock = w
    /\ ~hand[w].some
    /\ to_work # <<>>
    /\ hand' = [hand EXCEPT ![w] = Some(Head(to_work))]
    /\ to_work' = Tail(to_work)
    /\ UNCHANGED <<cache, baking, outbox, num_baking, from_work, thread,
                   dropped, next_uid, nsent, last, probe>>

\* MReceiver::next, .recv().ok(): the worker that holds the guard waits until
\* a key is queued and takes it; the guard, a temporary of the expression, is
\* dropped as next returns.
MReceiverRecv(w) ==
    /\ probe.lock = w
    /\ ~hand[w].some
    /\ to_work # <<>>
    /\ hand' = [hand EXCEPT ![w] = Some(Head(to_work))]
    /\ to_work' = Tail(to_work)
    /\ probe' = [probe EXCEPT !.lock = 0]
    /\ UNCHANGED <<cache, baking, outbox, num_baking, from_work, thread,
                   dropped, next_uid, nsent, last>>

MpmcWorker ==
    \E w \in Workers : MReceiverLock(w) \/ MReceiverRecv(w) \/ WorkerBake(w)

MpmcCaller == \E tilekey \in BakeryKeys : MpmcSend(tilekey) \/ MpmcTryRecv(tilekey)

NextMpmc == MpmcCaller \/ MpmcWorker

SpecMpmc == InitMpmc /\ [][NextMpmc]_vars

\* The worker threads are scheduled fairly.
FairSpecMpmc ==
    /\ SpecMpmc
    /\ \A w \in Workers :
          /\ WF_vars(MReceiverLock(w))
          /\ WF_vars(MReceiverRecv(w))
          /\ WF_vars(WorkerBake(w))

\* The keys taken from the work queue so far.
Taken == SentTotal(nsent) - Len(to_work)

\* C39: the work queue cannot stall the pool: the worker that holds the lock of
\* the queue is never baking, and whenever a key waits in the work queue and
\* some worker is not baking, a worker eventually takes the key at the head of
\* the queue.
C39_QueueNeverStalls ==
    /\ [](probe.phase = "mpmc" =>
             \A w \in Workers : hand[w].some => probe.lock # w)
    /\ \A n \in 0 .. MaxSends :
          (/\ Taken = n
           /\ to_work # <<>>
           /\ \E w \in Workers : ~hand[w].some) ~> (Taken > n)

\* C39 witness: two bakes are in progress at the same time, the second key
\* taken while the first was being baked.
C39_Witness ==
    /\ probe.phase = "mpmc"
    /\ \A w \in Workers : hand[w].some
    /\ hand[1] # hand[2]
    /\ probe.lock = 0

----------------------------------------------------------------------------
(* Canonicalization as a pure function: every TileKey over the palette is   *)
(* canonicalized once, and the result once more.                            *)

InitCanon ==
    /\ Renderer_new
    /\ thread = [w \in Workers |-> "running"]
    /\ probe \in {[phase |-> "key", key |-> k] : k \in AllTileKeys}

Canonicalize ==
    /\ probe.phase = "key"
    /\ probe' = [phase |-> "once", key |-> probe.key,
                 once |-> canonicalize(probe.key)]
    /\ UNCHANGED <<cache, baking, outbox, num_baking, to_work, from_work, hand,
                   thread, dropped, next_uid, nsent, last>>

CanonicalizeAgain ==
    /\ probe.phase = "once"
    /\ probe' = [phase |-> "twice", key |-> probe.key, once |-> probe.once,
                 twice |-> canonicalize(probe.once)]
    /\ UNCHANGED <<cache, baking, outbox, num_baking, to_work, from_work, hand,
                   thread, dropped, next_uid, nsent, last>>

NextCanon == Canonicalize \/ CanonicalizeAgain

SpecCanon == InitCanon /\ [][NextCanon]_vars

\* The neighbor cell (r, c) of k cannot cast a shadow on the center of k: its
\* surface's maximum height is at most the center surface's minimum height.
CannotShadow(k, r, c) ==
    Palette[at(k, r, c) + 1].hm_max <= Palette[at(k, 1, 1) + 1].hm_min

C8_Idempotent ==
    probe.phase = "twice" => probe.twice = probe.once

\* C8 witness: a key that canonicalization changes, keeping one neighbor and
\* dropping another, has been canonicalized twice.
C8_Witness ==
    /\ probe.phase = "twice"
    /\ Palette[1].hm_max = 0
    /\ probe.once # probe.key
    /\ \E n \in Neighbors : at(probe.once, n[1], n[2]) # 0

\* C25: the frame of canonicalization: for every TileKey, canonicalize leaves
\* the center cell and the overlay id unchanged, leaves unchanged every
\* neighbor cell whose surface's maximum height is strictly greater than the
\* center surface's minimum height, and every cell of the result is either 0
\* or the original value.
C25_CanonicalizeFrame ==
    probe.phase = "once" =>
        /\ center(probe.once) = center(probe.key)
        /\ probe.once.goody = probe.key.goody
        /\ \A n \in Neighbors :
              ~CannotShadow(probe.key, n[1], n[2])
                  => at(probe.once, n[1], n[2]) = at(probe.key, n[1], n[2])
        /\ \A r \in 0 .. 2, c \in 0 .. 2 :
              at(probe.once, r, c) \in {0, at(probe.key, r, c)}

\* C25 witness: a key with a non-empty center and an overlay has been
\* canonicalized, one non-empty neighbor kept and another set to 0.
C25_Witness ==
    /\ probe.phase = "once"
    /\ center(probe.key) # 0
    /\ probe.key.goody # 0
    /\ \E n \in Neighbors :
          /\ ~CannotShadow(probe.key, n[1], n[2])
          /\ at(probe.once, n[1], n[2]) # 0
    /\ \E n \in Neighbors :
          /\ at(probe.key, n[1], n[2]) # 0
          /\ at(probe.once, n[1], n[2]) = 0

====
